---- MODULE Spec2Model ----
(***************************************************************************)
(* Model of Fritzing's circuit simulator front end,                        *)
(* src/simulation/simulator.cpp: the debounce timer, the simulate()        *)
(* session, the overlay/dimming life cycle and the electrical queries.     *)
(*                                                                         *)
(* Text (QString) is a sequence of one-character strings, so toLower(),    *)
(* contains() and the building of ngspice vector names are computed.       *)
(* Electrical magnitudes are integers in milli-units.                      *)
(***************************************************************************)
EXTENDS Integers, Sequences, FiniteSets, TLC

(***************************************************************************)
(* Bounds of the model.                                                    *)
(***************************************************************************)
\* the debounce delay, in clock ticks of the model
SimDelay == 2
\* triggers counted in one burst
MaxBurst == 2
\* number of connectors of the voltage query harness
MaxPins == 3
\* highest net index of the voltage query harness
MaxNet == 2

(***************************************************************************)
(* QString helpers.                                                        *)
(***************************************************************************)
Upper == <<"A","B","C","D","E","F","G","H","I","J","K","L","M",
           "N","O","P","Q","R","S","T","U","V","W","X","Y","Z">>

Lower == <<"a","b","c","d","e","f","g","h","i","j","k","l","m",
           "n","o","p","q","r","s","t","u","v","w","x","y","z">>

Digits == <<"0","1","2","3","4","5","6","7","8","9">>

\* QChar::toLower
CharToLower(c) ==
    IF \E i \in 1..26 : Upper[i] = c
    THEN Lower[CHOOSE i \in 1..26 : Upper[i] = c]
    ELSE c

\* QString::toLower
ToLower(s) == [i \in 1..Len(s) |-> CharToLower(s[i])]

\* QString::contains(sub), case sensitive
Contains(s, sub) ==
    \E i \in 1..(Len(s) - Len(sub) + 1) : SubSeq(s, i, i + Len(sub) - 1) = sub

\* QString::indexOf of one token, 0-based, -1 when absent
IndexOf(s, tok) ==
    IF \E i \in 1..Len(s) : s[i] = tok
    THEN (CHOOSE i \in 1..Len(s) : s[i] = tok /\ \A j \in 1..(i-1) : s[j] # tok) - 1
    ELSE -1

RECURSIVE IntToStr(_)
\* QString::arg(int) for a non-negative integer
IntToStr(n) ==
    IF n < 10 THEN <<Digits[n + 1]>>
    ELSE IntToStr(n \div 10) \o <<Digits[(n % 10) + 1]>>

Abs(x) == IF x < 0 THEN -x ELSE x

EmptyFn == [x \in {} |-> 0]

\* QHash::value(key): the default-constructed value when the key is absent
HashValue(h, k, dflt) == IF k \in DOMAIN h THEN h[k] ELSE dflt

(***************************************************************************)
(* Markers simulate() looks for in the engine log.                         *)
(***************************************************************************)
ErrorMarker == <<"e","r","r","o","r">>

WarningMarker == <<"w","a","r","n","i","n","g">>

NoCircuitMarker ==
    <<"t","h","e","r","e"," ","a","r","e","n","'","t"," ","a","n","y"," ",
      "c","i","r","c","u","i","t","s"," ","l","o","a","d","e","d">>

(***************************************************************************)
(* Engine output the model draws from.                                     *)
(***************************************************************************)
\* what loadCircuit may leave on stdout
StdoutSamples ==
    { <<>>,
      <<"E","r","r","o","r"," ","o","n"," ","l","i","n","e"," ","2">>,
      <<"W","a","r","n","i","n","g">> }

\* what loadCircuit may leave on stderr
StderrSamples ==
    { <<>>,
      <<"W","a","r","n","i","n","g",","," ","c","a","n","'","t"," ",
        "f","i","n","d"," ","m","o","d","e","l">>,
      <<"E","R","R","O","R">> }

\* what remcirc and reset may leave on stderr
ResetStderrSamples ==
    { <<>>,
      <<"W","a","r","n","i","n","g",":"," ","n","o"," ","c","i","r","c","u","i","t">> }

\* what the background run may add to stderr
RunStderrSamples ==
    { <<>>,
      <<"T","h","e","r","e"," ","a","r","e","n","'","t"," ","a","n","y"," ",
        "c","i","r","c","u","i","t","s"," ","l","o","a","d","e","d">> }

(***************************************************************************)
(* The scene: the graphics items of the schematic and breadboard views.    *)
(* cls is the C++ class the dynamic_casts of the simulator distinguish.    *)
(***************************************************************************)
NoTitle == <<>>

NoProps == EmptyFn

\* a ConnectorItem: its identity, connectorSharedName(),
\* connectorSharedDescription() and connectedToWires()
Connector(id, name, description, wired) ==
    [id |-> id, name |-> name, description |-> description, wired |-> wired]

Item(view, cls, itemBase, title, family, spice, props) ==
    [view |-> view, cls |-> cls, itemBase |-> itemBase, title |-> title,
     family |-> family, spice |-> spice, props |-> props,
     connectors |-> <<>>, variant |-> <<>>]

\* an item with its cachedConnectorItems() and its variant property
PinnedItem(item, connectors, variant) ==
    [item EXCEPT !.connectors = connectors, !.variant = variant]

ResistorPart(view) ==
    Item(view, "part", TRUE, <<"R","1">>, <<"R","e","s","i","s","t","o","r">>,
         <<"R","{instanceTitle}"," ","1","k">>,
         [p \in {"power"} |-> 250])

LedPart(view) ==
    Item(view, "led", TRUE, <<"L","E","D","1">>, <<"L","E","D">>,
         <<"D","{instanceTitle}"," ","L","E","D">>,
         [p \in {"current"} |-> 20])

\* the internal resistance is 1 ohm, the voltage 9 V
BatteryPart(view) ==
    Item(view, "part", TRUE, <<"V","C","C","1">>, <<"B","a","t","t","e","r","y">>,
         <<"V","{instanceTitle}"," ","D","C">>,
         [p \in {"voltage", "internal resistance"} |->
             IF p = "voltage" THEN 9000 ELSE 1000])

\* a battery whose spice template does not hold the placeholder
BadBatteryPart(view) ==
    Item(view, "part", TRUE, <<"B","2">>, <<"B","a","t","t","e","r","y">>,
         <<"V","2"," ","D","C">>,
         [p \in {"voltage", "internal resistance"} |->
             IF p = "voltage" THEN 9000 ELSE 1000])

\* a part without a spice model: never part of the simulated set
PlainPart(view) ==
    Item(view, "part", TRUE, <<"U","1">>,
         <<"M","i","c","r","o","c","o","n","t","r","o","l","l","e","r">>,
         <<>>, NoProps)

\* a rectifier diode rated 500 mW
DiodePart(view) ==
    Item(view, "part", TRUE, <<"D","1">>, <<"D","i","o","d","e">>,
         <<"D","{instanceTitle}"," ","1","N","4","0","0","1">>,
         [p \in {"power"} |-> 500])

\* its family holds "led" (controLLED) and "resistor"; it is no LED item
ControlledResistorPart(view) ==
    Item(view, "part", TRUE, <<"V","R","1">>,
         <<"V","o","l","t","a","g","e","-","C","o","n","t","r","o","l","l","e","d"," ",
           "R","e","s","i","s","t","o","r">>,
         <<"R","{instanceTitle}"," ","1","k">>,
         [p \in {"power"} |-> 250])

\* a family no rule is written for
InductorPart(view) ==
    Item(view, "part", TRUE, <<"L","1">>, <<"I","n","d","u","c","t","o","r">>,
         <<"L","{instanceTitle}"," ","1","m">>, NoProps)

\* a resistor without a power rating
UnratedResistorPart(view) ==
    Item(view, "part", TRUE, <<"R","2">>, <<"R","e","s","i","s","t","o","r">>,
         <<"R","{instanceTitle}"," ","1","k">>, NoProps)

\* a potentiometer without a power rating: the resistors <title>A and <title>B
UnratedPotentiometerPart(view) ==
    Item(view, "part", TRUE, <<"P","O","T","1">>,
         <<"P","o","t","e","n","t","i","o","m","e","t","e","r">>,
         <<"R","{instanceTitle}","A"," ","5","k","\n",
           "R","{instanceTitle}","B"," ","5","k">>, NoProps)

\* a resistor whose two views spell the instance title differently
MistitledResistorPart(view) ==
    Item(view, "part", TRUE,
         IF view = "sch" THEN <<"R","9">> ELSE <<"r","9">>,
         <<"R","e","s","i","s","t","o","r">>,
         <<"R","{instanceTitle}"," ","1","k">>,
         [p \in {"power"} |-> 250])

\* a capacitor rated 16 V with the legs "+" and "-"
CapacitorPart(view, title, family, prefix) ==
    PinnedItem(
        Item(view, "part", TRUE, title, family,
             <<"C","{instanceTitle}"," ","1","u">>,
             [p \in {"voltage"} |-> 16000]),
        << Connector(prefix \o ".+", <<"+">>, <<"p","o","s">>, TRUE),
           Connector(prefix \o ".-", <<"-">>, <<"n","e","g">>, TRUE) >>,
        <<>>)

\* a capacitor rated 16 V whose legs carry no polarity names
UnmarkedCapacitorPart(view, prefix) ==
    PinnedItem(
        Item(view, "part", TRUE, <<"C","3">>,
             <<"C","a","p","a","c","i","t","o","r">>,
             <<"C","{instanceTitle}"," ","1","0","0","n">>,
             [p \in {"voltage"} |-> 16000]),
        << Connector(prefix \o ".0", <<"P","i","n"," ","0">>, <<>>, TRUE),
           Connector(prefix \o ".1", <<"P","i","n"," ","1">>, <<>>, TRUE) >>,
        <<>>)

\* a motor that turns from 1 V and stands 6 V
DcMotorPart(view, prefix) ==
    PinnedItem(
        Item(view, "part", TRUE, <<"M","1">>, <<"D","C"," ","M","o","t","o","r">>,
             <<"R","{instanceTitle}"," ","1","0">>,
             [p \in {"voltage (max)", "voltage (min)"} |->
                 IF p = "voltage (max)" THEN 6000 ELSE 1000]),
        << Connector(prefix \o ".1", <<"P","i","n"," ","1">>, <<>>, TRUE),
           Connector(prefix \o ".2", <<"P","i","n"," ","2">>, <<>>, TRUE) >>,
        <<>>)

\* an infrared sensor that stands 6 V and 20 mA at its output, with its
\* supply, ground and output pins
SensorPart(view, title, family, spice, prefix) ==
    PinnedItem(
        Item(view, "part", TRUE, title, family, spice,
             [p \in {"voltage (max)", "voltage (min)", "max output current"} |->
                 IF p = "voltage (max)" THEN 6000
                 ELSE IF p = "voltage (min)" THEN 3000 ELSE 20]),
        << Connector(prefix \o ".vcc", <<"V","C","C">>, <<"V","C","C">>, TRUE),
           Connector(prefix \o ".gnd", <<"G","N","D">>, <<"G","r","o","u","n","d">>, TRUE),
           Connector(prefix \o ".out", <<"O","U","T">>,
                     <<"O","u","t","p","u","t"," ","v","o","l","t","a","g","e">>, TRUE) >>,
        <<>>)

\* a line sensor: a pull-up resistor and the output transistor q<title>
LineSensorPart(view, title, family, prefix) ==
    SensorPart(view, title, family,
               <<"R","{instanceTitle}"," ","1","0","k","\n",
                 "Q","{instanceTitle}"," ","N","P","N">>, prefix)

\* a distance sensor: the voltage source v<title>a and a resistor
DistanceSensorPart(view, prefix) ==
    SensorPart(view, <<"D","S","1">>,
               <<"D","i","s","t","a","n","c","e"," ","S","e","n","s","o","r">>,
               <<"V","{instanceTitle}","a"," ","D","C","\n",
                 "R","{instanceTitle}","b"," ","1","k">>, prefix)

VoltmeterVariant == <<"V","o","l","t","m","e","t","e","r"," ","(","D","C",")">>

AmmeterVariant == <<"A","m","m","e","t","e","r"," ","(","D","C",")">>

OhmmeterVariant == <<"O","h","m","m","e","t","e","r">>

ContinuityVariant == <<"C","o","n","t","i","n","u","i","t","y">>

\* a multimeter with its three probes, wired or not
MultimeterPart(view, title, prefix, variant, comWired, vWired, aWired) ==
    PinnedItem(
        Item(view, "part", TRUE, title,
             <<"M","u","l","t","i","m","e","t","e","r">>,
             <<"V","{instanceTitle}"," ","D","C"," ","0">>, NoProps),
        << Connector(prefix \o ".com", <<"C","O","M"," ","P","r","o","b","e">>, <<>>, comWired),
           Connector(prefix \o ".v", <<"V"," ","P","r","o","b","e">>, <<>>, vWired),
           Connector(prefix \o ".a", <<"A"," ","P","r","o","b","e">>, <<>>, aWired) >>,
        variant)

Scene ==
    [i \in {"sR1", "sLED1", "sVCC1", "sB2", "sU1", "sW1",
            "bR1", "bLED1", "bVCC1", "bB2", "bU1", "bW1", "bBB1", "bR1c0",
            "sD1", "bD1", "sVR1", "bVR1", "sL1", "bL1", "sR2", "bR2", "sR9", "bR9",
            "sC1", "bC1", "sC2", "bC2", "sM1", "bM1",
            "sVM1", "bVM1", "sVM2", "bVM2", "sVM3", "bVM3", "sVM4", "bVM4",
            "sVM5", "bVM5", "sC3", "bC3",
            "sVM6", "bVM6", "sVM7", "bVM7",
            "sLS1", "bLS1", "sLS2", "bLS2", "sDS1", "bDS1", "sPOT1", "bPOT1"} |->
       CASE i = "sD1"   -> DiodePart("sch")
         [] i = "sC3"   -> UnmarkedCapacitorPart("sch", "sC3")
         [] i = "bC3"   -> UnmarkedCapacitorPart("bb", "bC3")
         [] i = "bD1"   -> DiodePart("bb")
         [] i = "sVR1"  -> ControlledResistorPart("sch")
         [] i = "bVR1"  -> ControlledResistorPart("bb")
         [] i = "sL1"   -> InductorPart("sch")
         [] i = "bL1"   -> InductorPart("bb")
         [] i = "sR2"   -> UnratedResistorPart("sch")
         [] i = "bR2"   -> UnratedResistorPart("bb")
         [] i = "sR9"   -> MistitledResistorPart("sch")
         [] i = "bR9"   -> MistitledResistorPart("bb")
         [] i = "sC1"   -> CapacitorPart("sch", <<"C","1">>,
                               <<"C","a","p","a","c","i","t","o","r">>, "sC1")
         [] i = "bC1"   -> CapacitorPart("bb", <<"C","1">>,
                               <<"C","a","p","a","c","i","t","o","r">>, "bC1")
         [] i = "sC2"   -> CapacitorPart("sch", <<"C","2">>,
                               <<"C","a","p","a","c","i","t","o","r"," ",
                                 "B","i","d","i","r","e","c","t","i","o","n","a","l">>, "sC2")
         [] i = "bC2"   -> CapacitorPart("bb", <<"C","2">>,
                               <<"C","a","p","a","c","i","t","o","r"," ",
                                 "B","i","d","i","r","e","c","t","i","o","n","a","l">>, "bC2")
         [] i = "sM1"   -> DcMotorPart("sch", "sM1")
         [] i = "bM1"   -> DcMotorPart("bb", "bM1")
         [] i = "sVM1"  -> MultimeterPart("sch", <<"V","M","1">>, "sVM1",
                                          VoltmeterVariant, TRUE, TRUE, TRUE)
         [] i = "bVM1"  -> MultimeterPart("bb", <<"V","M","1">>, "bVM1",
                                          VoltmeterVariant, TRUE, TRUE, TRUE)
         [] i = "sVM2"  -> MultimeterPart("sch", <<"V","M","2">>, "sVM2",
                                          AmmeterVariant, TRUE, TRUE, TRUE)
         [] i = "bVM2"  -> MultimeterPart("bb", <<"V","M","2">>, "bVM2",
                                          AmmeterVariant, TRUE, TRUE, TRUE)
         [] i = "sVM3"  -> MultimeterPart("sch", <<"V","M","3">>, "sVM3",
                                          OhmmeterVariant, TRUE, TRUE, TRUE)
         [] i = "bVM3"  -> MultimeterPart("bb", <<"V","M","3">>, "bVM3",
                                          OhmmeterVariant, TRUE, TRUE, TRUE)
         [] i = "sVM4"  -> MultimeterPart("sch", <<"V","M","4">>, "sVM4",
                                          ContinuityVariant, TRUE, TRUE, TRUE)
         [] i = "bVM4"  -> MultimeterPart("bb", <<"V","M","4">>, "bVM4",
                                          ContinuityVariant, TRUE, TRUE, TRUE)
         [] i = "sVM5"  -> MultimeterPart("sch", <<"V","M","5">>, "sVM5",
                                          VoltmeterVariant, TRUE, TRUE, FALSE)
         [] i = "bVM5"  -> MultimeterPart("bb", <<"V","M","5">>, "bVM5",
                                          VoltmeterVariant, TRUE, TRUE, FALSE)
         [] i = "sVM6"  -> MultimeterPart("sch", <<"V","M","6">>, "sVM6",
                                          VoltmeterVariant, FALSE, TRUE, TRUE)
         [] i = "bVM6"  -> MultimeterPart("bb", <<"V","M","6">>, "bVM6",
                                          VoltmeterVariant, FALSE, TRUE, TRUE)
         [] i = "sVM7"  -> MultimeterPart("sch", <<"V","M","7">>, "sVM7",
                                          VoltmeterVariant, FALSE, TRUE, FALSE)
         [] i = "bVM7"  -> MultimeterPart("bb", <<"V","M","7">>, "bVM7",
                                          VoltmeterVariant, FALSE, TRUE, FALSE)
         [] i = "sLS1"  -> LineSensorPart("sch", <<"L","S","1">>,
                               <<"l","i","n","e"," ","s","e","n","s","o","r">>, "sLS1")
         [] i = "bLS1"  -> LineSensorPart("bb", <<"L","S","1">>,
                               <<"l","i","n","e"," ","s","e","n","s","o","r">>, "bLS1")
         [] i = "sLS2"  -> LineSensorPart("sch", <<"L","S","2">>,
                               <<"L","i","n","e"," ","S","e","n","s","o","r">>, "sLS2")
         [] i = "bLS2"  -> LineSensorPart("bb", <<"L","S","2">>,
                               <<"L","i","n","e"," ","S","e","n","s","o","r">>, "bLS2")
         [] i = "sDS1"  -> DistanceSensorPart("sch", "sDS1")
         [] i = "bDS1"  -> DistanceSensorPart("bb", "bDS1")
         [] i = "sPOT1" -> UnratedPotentiometerPart("sch")
         [] i = "bPOT1" -> UnratedPotentiometerPart("bb")
         [] i = "sR1"   -> ResistorPart("sch")
         [] i = "bR1"   -> ResistorPart("bb")
         [] i = "sLED1" -> LedPart("sch")
         [] i = "bLED1" -> LedPart("bb")
         [] i = "sVCC1" -> BatteryPart("sch")
         [] i = "bVCC1" -> BatteryPart("bb")
         [] i = "sB2"   -> BadBatteryPart("sch")
         [] i = "bB2"   -> BadBatteryPart("bb")
         [] i = "sU1"   -> PlainPart("sch")
         [] i = "bU1"   -> PlainPart("bb")
         [] i = "sW1"   -> Item("sch", "wire", TRUE, <<"W","1">>, <<"w","i","r","e">>, <<>>, NoProps)
         [] i = "bW1"   -> Item("bb", "wire", TRUE, <<"W","1">>, <<"w","i","r","e">>, <<>>, NoProps)
         [] i = "bBB1"  -> Item("bb", "breadboard", TRUE, <<"B","B","1">>,
                                <<"b","r","e","a","d","b","o","a","r","d">>, <<>>, NoProps)
         [] i = "bR1c0" -> Item("bb", "connector", FALSE, NoTitle, <<>>, <<>>, NoProps)]

Items == DOMAIN Scene

SchItems == {i \in Items : Scene[i].view = "sch"}

BbItems == {i \in Items : Scene[i].view = "bb"}

ItemBases == {i \in Items : Scene[i].itemBase}

(***************************************************************************)
(* What MainWindow::getSpiceNetlist hands to simulate(): the netlist text, *)
(* the net list (connectors per net) and the parts to simulate.            *)
(***************************************************************************)
Circuit(text, netList, itemBases) ==
    [text |-> text, netList |-> netList, itemBases |-> itemBases]

Circuits ==
    { Circuit("empty", <<>>, {}),
      Circuit("R-V", << {"sVCC1.-", "sR1.1"}, {"sVCC1.+", "sR1.0"} >>,
              {"sR1", "sVCC1"}),
      Circuit("R-LED-V",
              << {"sVCC1.-", "sLED1.c"}, {"sVCC1.+", "sR1.0"}, {"sR1.1", "sLED1.a"} >>,
              {"sR1", "sLED1", "sVCC1"}),
      Circuit("R-B2", << {"sB2.-", "sR1.1"}, {"sB2.+", "sR1.0"} >>,
              {"sR1", "sB2"}),
      Circuit("R9-R", << {"sR9.1", "sR1.1"}, {"sR9.0", "sR1.0"} >>,
              {"sR9", "sR1"}) }

NoCircuit == Circuit("", <<>>, {})

(***************************************************************************)
(* Vectors the engine holds after a run: vector name -> samples.           *)
(***************************************************************************)
\* every part within its ratings
NominalVectors ==
    [n \in { <<"@","r","1","[","p","]">>,
             <<"@","d","l","e","d","1","[","i","d","]">>,
             <<"@","v","c","c","1","[","i","]">>,
             <<"v","(","1",")">>, <<"v","(","2",")">> } |->
       CASE n = <<"@","r","1","[","p","]">> -> <<100>>
         [] n = <<"@","d","l","e","d","1","[","i","d","]">> -> <<10>>
         [] n = <<"@","v","c","c","1","[","i","]">> -> <<-10>>
         [] n = <<"v","(","1",")">> -> <<9000>>
         [] n = <<"v","(","2",")">> -> <<2000>>]

\* every part beyond its ratings
OverloadVectors ==
    [n \in { <<"@","r","1","[","p","]">>,
             <<"@","d","l","e","d","1","[","i","d","]">>,
             <<"@","v","c","c","1","[","i","]">>,
             <<"v","(","1",")">> } |->
       CASE n = <<"@","r","1","[","p","]">> -> <<300>>
         [] n = <<"@","d","l","e","d","1","[","i","d","]">> -> <<25>>
         [] n = <<"@","v","c","c","1","[","i","]">> -> <<-1000>>
         [] n = <<"v","(","1",")">> -> <<9000>>]

NoVectors == EmptyFn

Solutions == {NominalVectors, OverloadVectors, NoVectors}

(***************************************************************************)
(* Electrical query layer.  A C++ throw is the field threw.                *)
(***************************************************************************)
Value(v) == [threw |-> FALSE, value |-> v]

Thrown == [threw |-> TRUE, value |-> 0]

\* NgSpiceSimulator::getVecInfo: empty when the engine has no such vector
getVecInfo(vec, name) == IF name \in DOMAIN vec THEN vec[name] ELSE <<>>

getVectorValueOrDefault(vec, vecName, defaultValue) ==
    IF getVecInfo(vec, vecName) = <<>> THEN defaultValue
    ELSE getVecInfo(vec, vecName)[1]

\* the name of the voltage vector of a net
NetVectorName(net) == <<"v","(">> \o IntToStr(net) \o <<")">>

\* the net a connector is looked up to
NetOf(hash, c) == HashValue(hash, c, 0)

\* a variant that asks the engine for every net
PinPotentialUnguarded(hash, vec, c) ==
    [value |-> getVectorValueOrDefault(vec, NetVectorName(NetOf(hash, c)), 0),
     queries |-> <<NetVectorName(NetOf(hash, c))>>]

\* the potential calculateVoltage takes for one connector, and the engine
\* vectors it asks for on the way
PinPotential(hash, vec, c) ==
    IF NetOf(hash, c) # 0
    THEN [value |-> getVectorValueOrDefault(vec, NetVectorName(NetOf(hash, c)), 0),
          queries |-> <<NetVectorName(NetOf(hash, c))>>]
    ELSE [value |-> 0, queries |-> <<>>]

\* a variant that takes the first potential for the voltage
calculateVoltageToGround(hash, vec, c0, c1) ==
    PinPotential(hash, vec, c0).value

calculateVoltage(hash, vec, c0, c1) ==
    PinPotential(hash, vec, c0).value - PinPotential(hash, vec, c1).value

\* the engine vectors one calculateVoltage call asks for, in order
VoltageQueries(hash, vec, c0, c1) ==
    PinPotential(hash, vec, c0).queries \o PinPotential(hash, vec, c1).queries

\* numeric_limits<double>::max(), beyond every magnitude of the model
DoubleMax == 1000000000

\* the textual value is taken as already converted by TextUtils
getMaxPropValue(part, property) ==
    IF property \in DOMAIN Scene[part].props
    THEN Scene[part].props[property]
    ELSE DoubleMax

getDeviceType(part) ==
    IF IndexOf(Scene[part].spice, "{instanceTitle}") > 0
    THEN Value(CharToLower(Scene[part].spice[IndexOf(Scene[part].spice, "{instanceTitle}")]))
    ELSE Thrown

getPower(vec, part, subpartName) ==
    getVectorValueOrDefault(vec,
        <<"@">> \o ToLower(Scene[part].title) \o ToLower(subpartName) \o <<"[","p","]">>,
        0)

\* the name getCurrent builds before the suffix
CurrentInstanceStr(part, subpartName, deviceType) ==
    IF deviceType = (ToLower(Scene[part].title) \o ToLower(subpartName))[1]
    THEN <<"@">> \o ToLower(Scene[part].title) \o ToLower(subpartName)
    ELSE <<"@", deviceType>> \o ToLower(Scene[part].title) \o ToLower(subpartName)

getCurrent(vec, part, subpartName) ==
    IF getDeviceType(part).threw THEN Thrown
    ELSE LET deviceType == getDeviceType(part).value
             instanceStr == CurrentInstanceStr(part, subpartName, deviceType)
         IN  CASE deviceType = "d" ->
                    Value(getVectorValueOrDefault(vec, instanceStr \o <<"[","i","d","]">>, 0))
               [] deviceType \in {"r","c","l","v","e","f","g","h","i"} ->
                    Value(getVectorValueOrDefault(vec, instanceStr \o <<"[","i","]">>, 0))
               [] OTHER -> Thrown

getTransistorCurrent(vec, spicePartName, leg) ==
    IF CharToLower(spicePartName[1]) # "q" THEN Thrown
    ELSE CASE leg = "BASE" ->
                Value(getVectorValueOrDefault(vec, <<"@">> \o spicePartName \o <<"[","i","b","]">>, 0))
           [] leg = "COLLECTOR" ->
                Value(getVectorValueOrDefault(vec, <<"@">> \o spicePartName \o <<"[","i","c","]">>, 0))
           [] leg = "EMITER" ->
                Value(getVectorValueOrDefault(vec, <<"@">> \o spicePartName \o <<"[","i","e","]">>, 0))
           [] OTHER -> Thrown

(***************************************************************************)
(* The rules.  A verdict is what a rule requests for its part: the overlay *)
(* kinds drawn on the part and its breadboard counterpart, and the final   *)
(* brightness set on the breadboard LED (per mille of the rated current,   *)
(* NoBrightness when untouched).  A throw leaves nothing requested.        *)
(***************************************************************************)
\* below every brightness a rule can ask for
NoBrightness == -DoubleMax

\* display holds the calls of updateMultimeterScreen, in order
Verdict(threw, overlays, brightness) ==
    [threw |-> threw, overlays |-> overlays, brightness |-> brightness,
     display |-> <<>>]

NoVerdict == Verdict(FALSE, {}, NoBrightness)

QueryError == Verdict(TRUE, {}, NoBrightness)

Smoke == Verdict(FALSE, {"smoke"}, NoBrightness)

updateDiode(vec, part) ==
    IF getPower(vec, part, <<>>) > getMaxPropValue(part, "power")
    THEN Smoke ELSE NoVerdict

\* a variant that leaves the brightness of a smoking LED as computed
updateLEDKeepBrightness(vec, part) ==
    IF Scene[part].cls # "led" THEN NoVerdict
    ELSE IF getCurrent(vec, part, <<>>).threw THEN QueryError
    ELSE LET curr == getCurrent(vec, part, <<>>).value
             maxCurr == getMaxPropValue(part, "current")
         IN  IF curr > maxCurr
             THEN Verdict(FALSE, {"smoke"}, (curr * 1000) \div maxCurr)
             ELSE Verdict(FALSE, {}, (curr * 1000) \div maxCurr)

updateLED(vec, part) ==
    IF Scene[part].cls # "led" THEN NoVerdict
    ELSE IF getCurrent(vec, part, <<>>).threw THEN QueryError
    ELSE LET curr == getCurrent(vec, part, <<>>).value
             maxCurr == getMaxPropValue(part, "current")
         IN  IF curr > maxCurr
             THEN Verdict(FALSE, {"smoke"}, 0)
             ELSE Verdict(FALSE, {}, (curr * 1000) \div maxCurr)

\* a variant that flags a power equal to the rating
updateResistorAtRating(vec, part) ==
    IF getPower(vec, part, <<>>) >= getMaxPropValue(part, "power")
    THEN Smoke ELSE NoVerdict

updateResistor(vec, part) ==
    IF getPower(vec, part, <<>>) > getMaxPropValue(part, "power")
    THEN Smoke ELSE NoVerdict

\* the infinity of the doubles, above numeric_limits<double>::max()
DoubleInf == DoubleMax + 1

\* the sum of two doubles: beyond the largest finite double it is an infinity
DoubleAdd(a, b) ==
    IF a + b > DoubleMax THEN DoubleInf
    ELSE IF a + b < -DoubleMax THEN -DoubleInf
    ELSE a + b

updatePotentiometer(vec, part) ==
    IF DoubleAdd(getPower(vec, part, <<"A">>), getPower(vec, part, <<"B">>))
          > getMaxPropValue(part, "power")
    THEN Smoke ELSE NoVerdict

\* safetyMargin = 0.1 as a divisor
SafetyMarginDiv == 10

\* a variant that compares the signed current
updateBatterySigned(vec, part) ==
    LET voltage == getMaxPropValue(part, "voltage")
        resistance == getMaxPropValue(part, "internal resistance")
        maxCurrent == ((voltage * 1000) \div resistance) \div SafetyMarginDiv
    IN  IF getCurrent(vec, part, <<>>).threw THEN QueryError
        ELSE IF getCurrent(vec, part, <<>>).value > maxCurrent
             THEN Smoke ELSE NoVerdict

updateBattery(vec, part) ==
    LET voltage == getMaxPropValue(part, "voltage")
        resistance == getMaxPropValue(part, "internal resistance")
        maxCurrent == ((voltage * 1000) \div resistance) \div SafetyMarginDiv
    IN  IF getCurrent(vec, part, <<>>).threw THEN QueryError
        ELSE IF Abs(getCurrent(vec, part, <<>>).value) > maxCurrent
             THEN Smoke ELSE NoVerdict

(***************************************************************************)
(* The rules that look for connectors of the part.                         *)
(***************************************************************************)
\* a null ConnectorItem pointer
NullConnector == Connector("nullptr", <<>>, <<>>, FALSE)

\* the connectors whose connectorSharedName().toLower() compares equal
NamedPins(part, name) ==
    {i \in 1..Len(Scene[part].connectors) :
        ToLower(Scene[part].connectors[i].name) = name}

\* the connectors whose connectorSharedDescription().toLower() is one of
DescribedPins(part, descriptions) ==
    {i \in 1..Len(Scene[part].connectors) :
        ToLower(Scene[part].connectors[i].description) \in descriptions}

\* the loop assigns at every match: the last match stays in the pointer
LastPin(part, found) ==
    Scene[part].connectors[CHOOSE i \in found : \A j \in found : j <= i]

\* a pointer declared with = nullptr
InitialisedPin(part, found) ==
    IF found = {} THEN {NullConnector} ELSE {LastPin(part, found)}

\* a pointer declared without initialiser: when the loop assigns nothing
\* its value is indeterminate, null, a connector of the net list or
\* anything else
UninitialisedPin(hash, part, found) ==
    IF found = {}
    THEN {NullConnector}
         \cup {Connector(c, <<>>, <<>>, FALSE) : c \in DOMAIN hash \cup {"garbage"}}
    ELSE {LastPin(part, found)}

\* a variant that tolerates a reverse voltage
updateCapacitorNoReverseTest(hash, vec, part) ==
    { IF negLeg = NullConnector \/ posLeg = NullConnector THEN NoVerdict
      ELSE LET maxV == getMaxPropValue(part, "voltage")
               v == calculateVoltage(hash, vec, posLeg.id, negLeg.id)
           IN  IF Contains(ToLower(Scene[part].family),
                           <<"b","i","d","i","r","e","c","t","i","o","n","a","l">>)
               THEN IF Abs(v) > maxV THEN Smoke ELSE NoVerdict
               ELSE IF 2 * v > maxV THEN Smoke ELSE NoVerdict
      : posLeg \in UninitialisedPin(hash, part, NamedPins(part, <<"+">>)),
        negLeg \in UninitialisedPin(hash, part, NamedPins(part, <<"-">>)) }

updateCapacitor(hash, vec, part) ==
    { IF negLeg = NullConnector \/ posLeg = NullConnector THEN NoVerdict
      ELSE LET maxV == getMaxPropValue(part, "voltage")
               v == calculateVoltage(hash, vec, posLeg.id, negLeg.id)
           IN  IF Contains(ToLower(Scene[part].family),
                           <<"b","i","d","i","r","e","c","t","i","o","n","a","l">>)
               THEN IF Abs(v) > maxV THEN Smoke ELSE NoVerdict
               ELSE IF 2 * v > maxV \/ v < 0 THEN Smoke ELSE NoVerdict
      : posLeg \in UninitialisedPin(hash, part, NamedPins(part, <<"+">>)),
        negLeg \in UninitialisedPin(hash, part, NamedPins(part, <<"-">>)) }

RotateCW == Verdict(FALSE, {"rotateCW"}, NoBrightness)

RotateCCW == Verdict(FALSE, {"rotateCCW"}, NoBrightness)

\* a variant that turns the motor only above its minimum voltage
updateDcMotorAboveMin(hash, vec, part) ==
    { IF terminal1 = NullConnector \/ terminal2 = NullConnector THEN NoVerdict
      ELSE LET maxV == getMaxPropValue(part, "voltage (max)")
               minV == getMaxPropValue(part, "voltage (min)")
               v == calculateVoltage(hash, vec, terminal1.id, terminal2.id)
           IN  IF Abs(v) > maxV THEN Smoke
               ELSE IF Abs(v) > minV
                    THEN (IF v > 0 THEN RotateCW ELSE RotateCCW)
                    ELSE NoVerdict
      : terminal1 \in UninitialisedPin(hash, part, NamedPins(part, <<"p","i","n"," ","1">>)),
        terminal2 \in UninitialisedPin(hash, part, NamedPins(part, <<"p","i","n"," ","2">>)) }

updateDcMotor(hash, vec, part) ==
    { IF terminal1 = NullConnector \/ terminal2 = NullConnector THEN NoVerdict
      ELSE LET maxV == getMaxPropValue(part, "voltage (max)")
               minV == getMaxPropValue(part, "voltage (min)")
               v == calculateVoltage(hash, vec, terminal1.id, terminal2.id)
           IN  IF Abs(v) > maxV THEN Smoke
               ELSE IF Abs(v) >= minV
                    THEN (IF v > 0 THEN RotateCW ELSE RotateCCW)
                    ELSE NoVerdict
      : terminal1 \in UninitialisedPin(hash, part, NamedPins(part, <<"p","i","n"," ","1">>)),
        terminal2 \in UninitialisedPin(hash, part, NamedPins(part, <<"p","i","n"," ","2">>)) }

\* the sensor's output current: a transistor's collector for a family that
\* holds "line sensor" as written, the subpart "a" otherwise
SensorOutputCurrent(vec, part) ==
    IF Contains(Scene[part].family, <<"l","i","n","e"," ","s","e","n","s","o","r">>)
    THEN getTransistorCurrent(vec, <<"q">> \o ToLower(Scene[part].title), "COLLECTOR")
    ELSE getCurrent(vec, part, <<"a">>)

updateIRSensor(hash, vec, part) ==
    { IF gnd = NullConnector \/ vcc = NullConnector \/ out = NullConnector THEN NoVerdict
      ELSE LET maxV == getMaxPropValue(part, "voltage (max)")
               maxIout == getMaxPropValue(part, "max output current")
               v == calculateVoltage(hash, vec, vcc.id, gnd.id)
               i == SensorOutputCurrent(vec, part)
           IN  IF i.threw THEN QueryError
               ELSE IF v > maxV \/ v < 0 \/ Abs(i.value) > maxIout
                    THEN Smoke ELSE NoVerdict
      : vcc \in UninitialisedPin(hash, part,
                   DescribedPins(part, { <<"v","c","c">>,
                       <<"s","u","p","p","l","y"," ","v","o","l","t","a","g","e">> })),
        gnd \in UninitialisedPin(hash, part,
                   DescribedPins(part, { <<"g","n","d">>, <<"g","r","o","u","n","d">> })),
        out \in UninitialisedPin(hash, part,
                   DescribedPins(part, { <<"o","u","t">>,
                       <<"o","u","t","p","u","t"," ","v","o","l","t","a","g","e">> })) }

(***************************************************************************)
(* The multimeter and its screen.                                          *)
(***************************************************************************)
\* a double handed to the screen: finite, infinite or not a number
Reading(class, value) == [class |-> class, value |-> value]

NoReading == Reading("none", 0)

\* QString(5 - aux.size(), ' ') in front of the message; the '.' takes no
\* position of the screen
PadScreen(msg) ==
    LET aux == SelectSeq(msg, LAMBDA c : c # ".")
    IN  IF Len(aux) < 5 THEN [i \in 1..(5 - Len(aux)) |-> " "] \o msg ELSE msg

\* updateMultimeterScreen(multimeter, msg): the message asked for and the
\* text item put on the part and its counterpart
ScreenText(msg) ==
    [Verdict(FALSE, {"text"}, NoBrightness) EXCEPT
        !.display = << [numeric |-> FALSE, msg |-> msg, reading |-> NoReading,
                        drawn |-> PadScreen(msg)] >>]

\* updateMultimeterScreen(multimeter, number): the text of the number is
\* made by TextUtils::convertToPowerPrefix, which is kept as the number
ScreenNumber(reading) ==
    [Verdict(FALSE, {"text"}, NoBrightness) EXCEPT
        !.display = << [numeric |-> TRUE, msg |-> <<>>, reading |-> reading,
                        drawn |-> <<>>] >>]

ErrText == <<"E","R","R">>

\* abs(v/a) of the ohmmeter, in milliohm: the division of doubles by zero
\* gives an infinity, or no number for 0/0
Resistance(v, a) ==
    IF a # 0 THEN Reading("finite", (Abs(v) * 1000) \div Abs(a))
    ELSE IF v # 0 THEN Reading("inf", 0) ELSE Reading("nan", 0)

\* a variant that forgets the test for three wired probes
updateMultimeterNoThreeProbeTest(hash, vec, part) ==
    LET variant == ToLower(Scene[part].variant)
        comProbe == CHOOSE c \in InitialisedPin(part,
                        NamedPins(part, <<"c","o","m"," ","p","r","o","b","e">>)) : TRUE
        vProbe == CHOOSE c \in InitialisedPin(part,
                        NamedPins(part, <<"v"," ","p","r","o","b","e">>)) : TRUE
        aProbe == CHOOSE c \in InitialisedPin(part,
                        NamedPins(part, <<"a"," ","p","r","o","b","e">>)) : TRUE
    IN  IF comProbe = NullConnector \/ vProbe = NullConnector \/ aProbe = NullConnector
        THEN NoVerdict
        ELSE IF variant = ToLower(VoltmeterVariant)
        THEN IF aProbe.wired THEN ScreenText(ErrText)
             ELSE IF comProbe.wired /\ vProbe.wired
                  THEN ScreenNumber(Reading("finite",
                           calculateVoltage(hash, vec, vProbe.id, comProbe.id)))
                  ELSE NoVerdict
        ELSE IF variant = ToLower(AmmeterVariant)
        THEN IF vProbe.wired THEN ScreenText(ErrText)
             ELSE IF getCurrent(vec, part, <<>>).threw THEN QueryError
                  ELSE ScreenNumber(Reading("finite", getCurrent(vec, part, <<>>).value))
        ELSE IF variant = ToLower(OhmmeterVariant)
        THEN IF aProbe.wired THEN ScreenText(ErrText)
             ELSE IF getCurrent(vec, part, <<>>).threw THEN QueryError
                  ELSE ScreenNumber(Resistance(
                           calculateVoltage(hash, vec, vProbe.id, comProbe.id),
                           getCurrent(vec, part, <<>>).value))
        ELSE NoVerdict

\* a variant whose voltmeter forgets the test of the A probe
updateMultimeterNoAProbeTest(hash, vec, part) ==
    LET variant == ToLower(Scene[part].variant)
        comProbe == CHOOSE c \in InitialisedPin(part,
                        NamedPins(part, <<"c","o","m"," ","p","r","o","b","e">>)) : TRUE
        vProbe == CHOOSE c \in InitialisedPin(part,
                        NamedPins(part, <<"v"," ","p","r","o","b","e">>)) : TRUE
        aProbe == CHOOSE c \in InitialisedPin(part,
                        NamedPins(part, <<"a"," ","p","r","o","b","e">>)) : TRUE
    IN  IF comProbe = NullConnector \/ vProbe = NullConnector \/ aProbe = NullConnector
        THEN NoVerdict
        ELSE IF comProbe.wired /\ vProbe.wired /\ aProbe.wired
        THEN ScreenText(ErrText)
        ELSE IF variant = ToLower(VoltmeterVariant)
        THEN IF comProbe.wired /\ vProbe.wired
                  THEN ScreenNumber(Reading("finite",
                           calculateVoltage(hash, vec, vProbe.id, comProbe.id)))
                  ELSE NoVerdict
        ELSE IF variant = ToLower(AmmeterVariant)
        THEN IF vProbe.wired THEN ScreenText(ErrText)
             ELSE IF getCurrent(vec, part, <<>>).threw THEN QueryError
                  ELSE ScreenNumber(Reading("finite", getCurrent(vec, part, <<>>).value))
        ELSE IF variant = ToLower(OhmmeterVariant)
        THEN IF aProbe.wired THEN ScreenText(ErrText)
             ELSE IF getCurrent(vec, part, <<>>).threw THEN QueryError
                  ELSE ScreenNumber(Resistance(
                           calculateVoltage(hash, vec, vProbe.id, comProbe.id),
                           getCurrent(vec, part, <<>>).value))
        ELSE NoVerdict

updateMultimeter(hash, vec, part) ==
    LET variant == ToLower(Scene[part].variant)
        comProbe == CHOOSE c \in InitialisedPin(part,
                        NamedPins(part, <<"c","o","m"," ","p","r","o","b","e">>)) : TRUE
        vProbe == CHOOSE c \in InitialisedPin(part,
                        NamedPins(part, <<"v"," ","p","r","o","b","e">>)) : TRUE
        aProbe == CHOOSE c \in InitialisedPin(part,
                        NamedPins(part, <<"a"," ","p","r","o","b","e">>)) : TRUE
    IN  IF comProbe = NullConnector \/ vProbe = NullConnector \/ aProbe = NullConnector
        THEN NoVerdict
        ELSE IF comProbe.wired /\ vProbe.wired /\ aProbe.wired
        THEN ScreenText(ErrText)
        ELSE IF variant = ToLower(VoltmeterVariant)
        THEN IF aProbe.wired THEN ScreenText(ErrText)
             ELSE IF comProbe.wired /\ vProbe.wired
                  THEN ScreenNumber(Reading("finite",
                           calculateVoltage(hash, vec, vProbe.id, comProbe.id)))
                  ELSE NoVerdict
        ELSE IF variant = ToLower(AmmeterVariant)
        THEN IF vProbe.wired THEN ScreenText(ErrText)
             ELSE IF getCurrent(vec, part, <<>>).threw THEN QueryError
                  ELSE ScreenNumber(Reading("finite", getCurrent(vec, part, <<>>).value))
        ELSE IF variant = ToLower(OhmmeterVariant)
        THEN IF aProbe.wired THEN ScreenText(ErrText)
             ELSE IF getCurrent(vec, part, <<>>).threw THEN QueryError
                  ELSE ScreenNumber(Resistance(
                           calculateVoltage(hash, vec, vProbe.id, comProbe.id),
                           getCurrent(vec, part, <<>>).value))
        ELSE NoVerdict

(***************************************************************************)
(* The dispatch of simulate(): the first family substring that matches.    *)
(***************************************************************************)
\* a variant that asks for "resistor" before "led"
RuleForResistorFirst(family) ==
    LET f == ToLower(family)
    IN  CASE Contains(f, <<"c","a","p","a","c","i","t","o","r">>) -> "updateCapacitor"
          [] Contains(f, <<"d","i","o","d","e">>) -> "updateDiode"
          [] Contains(f, <<"r","e","s","i","s","t","o","r">>) -> "updateResistor"
          [] Contains(f, <<"l","e","d">>) -> "updateLED"
          [] Contains(f, <<"m","u","l","t","i","m","e","t","e","r">>) -> "updateMultimeter"
          [] Contains(f, <<"d","c"," ","m","o","t","o","r">>) -> "updateDcMotor"
          [] Contains(f, <<"l","i","n","e"," ","s","e","n","s","o","r">>)
             \/ Contains(f, <<"d","i","s","t","a","n","c","e"," ","s","e","n","s","o","r">>)
               -> "updateIRSensor"
          [] Contains(f, <<"b","a","t","t","e","r","y">>)
             \/ Contains(f, <<"v","o","l","t","a","g","e"," ","s","o","u","r","c","e">>)
               -> "updateBattery"
          [] Contains(f, <<"p","o","t","e","n","t","i","o","m","e","t","e","r">>)
             \/ Contains(f, <<"s","p","a","r","k","f","u","n"," ","t","r","i","m","p","o","t">>)
               -> "updatePotentiometer"
          [] OTHER -> "none"

RuleFor(family) ==
    LET f == ToLower(family)
    IN  CASE Contains(f, <<"c","a","p","a","c","i","t","o","r">>) -> "updateCapacitor"
          [] Contains(f, <<"d","i","o","d","e">>) -> "updateDiode"
          [] Contains(f, <<"l","e","d">>) -> "updateLED"
          [] Contains(f, <<"r","e","s","i","s","t","o","r">>) -> "updateResistor"
          [] Contains(f, <<"m","u","l","t","i","m","e","t","e","r">>) -> "updateMultimeter"
          [] Contains(f, <<"d","c"," ","m","o","t","o","r">>) -> "updateDcMotor"
          [] Contains(f, <<"l","i","n","e"," ","s","e","n","s","o","r">>)
             \/ Contains(f, <<"d","i","s","t","a","n","c","e"," ","s","e","n","s","o","r">>)
               -> "updateIRSensor"
          [] Contains(f, <<"b","a","t","t","e","r","y">>)
             \/ Contains(f, <<"v","o","l","t","a","g","e"," ","s","o","u","r","c","e">>)
               -> "updateBattery"
          [] Contains(f, <<"p","o","t","e","n","t","i","o","m","e","t","e","r">>)
             \/ Contains(f, <<"s","p","a","r","k","f","u","n"," ","t","r","i","m","p","o","t">>)
               -> "updatePotentiometer"
          [] OTHER -> "none"

\* the verdict of a rule that reads the engine only
RuleVerdict(vec, part) ==
    LET rule == RuleFor(Scene[part].family)
    IN  CASE rule = "updateDiode" -> updateDiode(vec, part)
          [] rule = "updateLED" -> updateLED(vec, part)
          [] rule = "updateResistor" -> updateResistor(vec, part)
          [] rule = "updateBattery" -> updateBattery(vec, part)
          [] rule = "updatePotentiometer" -> updatePotentiometer(vec, part)
          [] OTHER -> NoVerdict

\* what the rule a part is dispatched to can request: one verdict, or one
\* of several where the rule reads an indeterminate pointer
RuleVerdicts(hash, vec, part) ==
    LET rule == RuleFor(Scene[part].family)
    IN  CASE rule = "updateCapacitor" -> updateCapacitor(hash, vec, part)
          [] rule = "updateMultimeter" -> {updateMultimeter(hash, vec, part)}
          [] rule = "updateDcMotor" -> updateDcMotor(hash, vec, part)
          [] rule = "updateIRSensor" -> updateIRSensor(hash, vec, part)
          [] OTHER -> {RuleVerdict(vec, part)}

(***************************************************************************)
(* State.                                                                  *)
(***************************************************************************)
VARIABLES
    m_enabled,            \* Simulator::m_enabled
    m_simulating,         \* Simulator::m_simulating
    m_simTimer,           \* ticks left on the single-shot timer, TimerOff when inactive
    stack,                \* the activations of simulate() on the control thread
    greyed,               \* items carrying the grey colorize effect
    overlays,             \* <<item, kind>>: simulation graphics items on the parts
    brightness,           \* brightness set on the breadboard LEDs
    m_connector2netHash,  \* connector -> net index
    m_sch2bbItemHash,     \* schematic part -> breadboard part
    engine,               \* the ngspice engine: its log, error flag and vectors
    lastSignal,           \* the Qt signal emitted last
    crashed,              \* the process has terminated
    lastEvent,            \* the handler that ran last
    sinceTrigger,         \* ticks since the last honoured trigger, up to SimDelay
    burstLen,             \* honoured triggers of the latest burst, up to MaxBurst
    burstStarts,          \* sessions the timer started since the last honoured trigger
    lastSession,          \* how the session that ended last ended
    vq,                   \* the last voltage query and its result
    rv                    \* the part the loop has just diagnosed, its rule and verdict

vars == <<m_enabled, m_simulating, m_simTimer, stack, greyed, overlays, brightness,
          m_connector2netHash, m_sch2bbItemHash, engine, lastSignal, crashed,
          lastEvent, sinceTrigger, burstLen, burstStarts, lastSession, vq, rv>>

ctlVars == <<m_enabled, m_simulating>>

viewVars == <<greyed, overlays, brightness>>

hashVars == <<m_connector2netHash, m_sch2bbItemHash>>

burstVars == <<sinceTrigger, burstLen, burstStarts>>

TimerOff == -1

\* the breadboard LEDs removeSimItems resets
BbLeds == {i \in ItemBases : Scene[i].view = "bb" /\ Scene[i].cls = "led"}

NoSignal == [sig |-> "none", arg |-> FALSE]

Signal(sig, arg) == [sig |-> sig, arg |-> arg]

NoReport == [kind |-> "none", outLog |-> <<>>, errLog |-> <<>>, netlist |-> ""]

Report(kind, outLog, errLog, netlist) ==
    [kind |-> kind, outLog |-> outLog, errLog |-> errLog, netlist |-> netlist]

\* cleared: the removeSimItems() of this activation found an overlay to remove
Frame(pc, origin, circuit, cmds, todo, dispatched, report) ==
    [pc |-> pc, origin |-> origin, circuit |-> circuit, cmds |-> cmds,
     todo |-> todo, dispatched |-> dispatched, report |-> report,
     cleared |-> FALSE]

Session(outcome, f, cmds, dispatched, stillRunning) ==
    [outcome |-> outcome, itemBases |-> f.circuit.itemBases, cmds |-> cmds,
     dispatched |-> dispatched, stillRunning |-> stillRunning]

NoSession ==
    [outcome |-> "none", itemBases |-> {}, cmds |-> <<>>, dispatched |-> {},
     stillRunning |-> FALSE]

NoQuery == [c0 |-> 0, c1 |-> 0, volts |-> 0, queries |-> <<>>]

NoRule == [part |-> "", rule |-> "none", verdict |-> NoVerdict]

Top == stack[Len(stack)]

Pop == SubSeq(stack, 1, Len(stack) - 1)

ReplaceTop(f) == [stack EXCEPT ![Len(stack)] = f]

\* simulate() is inside a modal message box, whose exec() runs an event loop
Boxes == {"InitFailedBox", "LoadFailedBox", "FatalBox"}

\* the control thread is back in the main event loop
Idle == ~crashed /\ stack = <<>>

\* the control thread is in an event loop, the main one or a message box's
InEventLoop == ~crashed /\ (IF stack = <<>> THEN TRUE ELSE Top.pc \in Boxes)

\* simulate() is at program point pc
At(pc) == ~crashed /\ stack # <<>> /\ Top.pc = pc

(***************************************************************************)
(* removeSimItems and greyOutNonSimParts, on the three view variables.     *)
(***************************************************************************)
\* a variant that does not reset the brightness of the LEDs
removeSimItemsOfKeepBrightness(items, view) ==
    [greyed |-> view.greyed \ items,
     overlays |-> {o \in view.overlays : o[1] \notin (items \cap ItemBases)},
     brightness |-> view.brightness]

\* a variant that leaves the simulation graphics items on the parts
removeSimItemsOfKeepOverlays(items, view) ==
    [greyed |-> view.greyed \ items,
     overlays |-> view.overlays,
     brightness |-> [l \in BbLeds |->
                        IF l \in items THEN NoBrightness ELSE view.brightness[l]]]

\* removeSimItems(QList<QGraphicsItem *>): the view state it leaves
removeSimItemsOf(items, view) ==
    [greyed |-> view.greyed \ items,
     overlays |-> {o \in view.overlays : o[1] \notin (items \cap ItemBases)},
     brightness |-> [l \in BbLeds |->
                        IF l \in items THEN NoBrightness ELSE view.brightness[l]]]

\* a variant that forgets the breadboard scene
removeSimItemsSchOnly(view) == removeSimItemsOf(SchItems, view)

\* removeSimItems(): the schematic scene, then the breadboard scene
removeSimItems(view) == removeSimItemsOf(BbItems, removeSimItemsOf(SchItems, view))

View == [greyed |-> greyed, overlays |-> overlays, brightness |-> brightness]

SetView(view) ==
    /\ greyed' = view.greyed
    /\ overlays' = view.overlays
    /\ brightness' = view.brightness

\* the classes removeItemsToBeSimulated drops from the list to grey out
NeverGreyed ==
    {"connector", "wire", "partlabel", "note", "ledlight", "symbol",
     "board", "perfboard", "breadboard", "ruler"}

removeItemsToBeSimulated(parts) == {p \in parts : Scene[p].cls \notin NeverGreyed}

\* a variant that leaves the counterparts in the breadboard list
greyOutNonSimPartsKeepCounterparts(simParts, sch2bb) ==
    removeItemsToBeSimulated(SchItems \ simParts)
    \cup removeItemsToBeSimulated(BbItems)

\* the items greyOutNonSimParts puts the effect on
greyOutNonSimParts(simParts, sch2bb) ==
    removeItemsToBeSimulated(SchItems \ simParts)
    \cup removeItemsToBeSimulated(
            BbItems \ {sch2bb[p] : p \in simParts \cap DOMAIN sch2bb})

(***************************************************************************)
(* The indices simulate() rebuilds.                                        *)
(***************************************************************************)
\* a variant without m_connector2netHash.clear()
Connector2NetKeepOld(netList) ==
    [ci \in DOMAIN m_connector2netHash \cup UNION {netList[i] : i \in 1..Len(netList)} |->
        IF \E i \in 1..Len(netList) : ci \in netList[i]
        THEN (CHOOSE i \in 1..Len(netList) :
                /\ ci \in netList[i]
                /\ \A j \in (i+1)..Len(netList) : ci \notin netList[j]) - 1
        ELSE m_connector2netHash[ci]]

\* insert(ci, i) for every net in order: the last net holding ci wins
Connector2Net(netList) ==
    [ci \in UNION {netList[i] : i \in 1..Len(netList)} |->
        (CHOOSE i \in 1..Len(netList) :
            /\ ci \in netList[i]
            /\ \A j \in (i+1)..Len(netList) : ci \notin netList[j]) - 1]

\* the breadboard item bases whose instance title compares equal
TitleMatches(schPart) ==
    {b \in BbItems \cap ItemBases : Scene[b].title = Scene[schPart].title}

\* the hashes the title matching can build; with several matches the one
\* inserted last, in the scene's item order, wins
Sch2BbChoices(itemBases) ==
    LET matched == {p \in itemBases : TitleMatches(p) # {}}
        inserted == UNION {TitleMatches(p) : p \in matched}
    IN  {h \in [matched -> inserted] : \A p \in matched : h[p] \in TitleMatches(p)}

(***************************************************************************)
(* Initial state: the constructor.  m_enabled is read from the settings;   *)
(* enable() compares it with the member before the member is first set,    *)
(* so the enabled signal may or may not be emitted.                        *)
(***************************************************************************)
InitCommon ==
    /\ m_enabled \in BOOLEAN
    /\ m_simulating = FALSE
    /\ m_simTimer = TimerOff
    /\ stack = <<>>
    /\ greyed = {}
    /\ overlays = {}
    /\ brightness = [l \in BbLeds |-> NoBrightness]
    /\ lastSignal \in {NoSignal, Signal("simulationEnabled", m_enabled)}
    /\ crashed = FALSE
    /\ lastEvent = "init"
    /\ sinceTrigger = SimDelay
    /\ burstLen = 0
    /\ burstStarts = 0
    /\ lastSession = NoSession
    /\ vq = NoQuery
    /\ rv = NoRule

Init ==
    /\ InitCommon
    /\ m_connector2netHash = EmptyFn
    /\ m_sch2bbItemHash = EmptyFn
    /\ engine = [outLog |-> <<>>, errLog |-> <<>>, error |-> FALSE, vec |-> NoVectors]

(***************************************************************************)
(* The debounce timer.                                                     *)
(***************************************************************************)
\* a variant that stops the timer
resetTimerStop(timer) == TimerOff

\* a variant that leaves a running timer alone
resetTimerKeepRunning(timer) == IF timer # TimerOff THEN timer ELSE SimDelay

\* QTimer::start(SimDelay): a running timer is stopped and started again
resetTimer(timer) == SimDelay

\* setSingleShot(true): the timer is inactive once it has fired
TimerAfterTimeout == TimerOff

\* variants of the guard that test one flag only
SimulateGuardEnabledOnly(enabled, simulating) == enabled

SimulateGuardSimulatingOnly(enabled, simulating) == simulating

\* the guard at the head of simulate()
SimulateGuard(enabled, simulating) == enabled /\ simulating

\* time passes, in the event loop or while simulate() blocks the thread
Tick ==
    /\ ~crashed
    /\ (IF m_simTimer > 0 THEN TRUE ELSE sinceTrigger < SimDelay)
    /\ m_simTimer' = IF m_simTimer > 0 THEN m_simTimer - 1 ELSE m_simTimer
    /\ sinceTrigger' = IF sinceTrigger < SimDelay THEN sinceTrigger + 1 ELSE sinceTrigger
    /\ UNCHANGED <<ctlVars, stack, viewVars, hashVars, engine, lastSignal, crashed,
                   lastEvent, burstLen, burstStarts, lastSession, vq, rv>>

triggerSimulation ==
    /\ Idle
    /\ lastEvent' = "trigger"
    /\ lastSession' = NoSession
    /\ IF m_simulating
       THEN /\ m_simTimer' = resetTimer(m_simTimer)
            /\ sinceTrigger' = 0
            /\ burstLen' = IF m_simTimer = TimerOff THEN 1
                           ELSE IF burstLen < MaxBurst THEN burstLen + 1 ELSE burstLen
            /\ burstStarts' = 0
       ELSE UNCHANGED <<m_simTimer, burstVars>>
    /\ UNCHANGED <<ctlVars, stack, viewVars, hashVars, engine, lastSignal, crashed, vq, rv>>

enable(b) ==
    /\ Idle
    /\ lastEvent' = "enable"
    /\ lastSession' = NoSession
    /\ lastSignal' = IF m_enabled # b THEN Signal("simulationEnabled", b) ELSE lastSignal
    /\ m_enabled' = b
    /\ IF ~b THEN SetView(removeSimItems(View)) ELSE UNCHANGED viewVars
    /\ UNCHANGED <<m_simulating, m_simTimer, stack, hashVars, engine, crashed,
                   burstVars, vq, rv>>

(***************************************************************************)
(* simulate(), from its entry to the point where the circuit is loaded:    *)
(* the guard, init(), clearLog(), getSpiceNetlist(), remcirc, reset,       *)
(* clearLog().  What remcirc and reset log is wiped by the second          *)
(* clearLog().  init() may throw; the catch block shows a message box.     *)
(***************************************************************************)
\* a variant of clearLog that leaves the buffer as it is
clearLogKeep(log) == log

\* NgSpiceSimulator::clearLog on one of the two buffers
clearLog(log) == <<>>

simulate(simulating, origin) ==
    /\ lastSession' = NoSession
    /\ IF ~SimulateGuard(m_enabled, simulating)
       THEN UNCHANGED <<stack, engine>>
       ELSE \/ /\ stack' = Append(stack,
                      Frame("InitFailedBox", origin, NoCircuit, <<"init">>, {}, {},
                            Report("init", <<>>, <<>>, "")))
               /\ UNCHANGED engine
            \/ \E c \in Circuits, pre \in ResetStderrSamples :
               /\ stack' = Append(stack,
                      Frame("Loading", origin, c,
                            <<"init", "clearLog", "remcirc", "reset", "clearLog">>,
                            {}, {}, NoReport))
               /\ engine' = [engine EXCEPT
                                 !.outLog = clearLog(clearLog(@)),
                                 !.errLog = clearLog(clearLog(@) \o pre)]

startSimulation ==
    /\ Idle
    /\ lastEvent' = "start"
    /\ m_simulating' = TRUE
    /\ lastSignal' = Signal("simulationStartedOrStopped", TRUE)
    /\ simulate(TRUE, "start")
    /\ burstLen' = 0
    /\ UNCHANGED <<m_enabled, m_simTimer, viewVars, hashVars, crashed, sinceTrigger,
                   burstStarts, vq, rv>>

stopSimulation ==
    /\ Idle
    /\ lastEvent' = "stop"
    /\ lastSession' = NoSession
    /\ m_simulating' = FALSE
    /\ SetView(removeSimItems(View))
    /\ lastSignal' = Signal("simulationStartedOrStopped", FALSE)
    /\ burstLen' = 0
    /\ UNCHANGED <<m_enabled, m_simTimer, stack, hashVars, engine, crashed, sinceTrigger,
                   burstStarts, vq, rv>>

\* QTimer::timeout -> Simulator::simulate, delivered by an event loop
TimerExpire ==
    /\ InEventLoop
    /\ m_simTimer = 0
    /\ lastEvent' = "timeout"
    /\ m_simTimer' = TimerAfterTimeout
    /\ simulate(m_simulating, "timer")
    /\ burstStarts' = IF SimulateGuard(m_enabled, m_simulating) /\ burstStarts < 2
                      THEN burstStarts + 1 ELSE burstStarts
    /\ UNCHANGED <<ctlVars, viewVars, hashVars, lastSignal, crashed, sinceTrigger,
                   burstLen, vq, rv>>

(***************************************************************************)
(* An exception that leaves simulate().  It unwinds every activation into  *)
(* the Qt event loop, which is undefined: the process terminates, or the   *)
(* application's notify() catches it and the event loop goes on.           *)
(***************************************************************************)
Throw(session) ==
    /\ stack' = <<>>
    /\ crashed' \in BOOLEAN
    /\ lastSession' = session

\* a call through a null pointer that ends the process
Crash(session) ==
    /\ stack' = <<>>
    /\ crashed' = TRUE
    /\ lastSession' = session

\* m_sch2bbItemHash.value(part): the counterpart, none when it is null
Counterparts(sch2bb, part) == IF part \in DOMAIN sch2bb THEN {sch2bb[part]} ELSE {}

\* the outcomes of the calls simulate() makes through value(part): they are
\* undefined when the pointer is null, the process ends or the call is void
NullCallDies(sch2bb, parts) == IF parts \subseteq DOMAIN sch2bb THEN {FALSE} ELSE BOOLEAN

(***************************************************************************)
(* simulate(): loadCircuit, the log check, listing, bg_run, the indices,   *)
(* removeSimItems, greyOutNonSimParts.                                     *)
(***************************************************************************)
\* a variant that compares case sensitively
LoadFailedCaseSensitive(outLog, errLog) ==
    \/ Contains(outLog, ErrorMarker)
    \/ Contains(errLog, WarningMarker)

\* the log check after loadCircuit
LoadFailed(outLog, errLog) ==
    \/ Contains(ToLower(outLog), ErrorMarker)
    \/ Contains(ToLower(errLog), WarningMarker)

LoadCircuit ==
    /\ At("Loading")
    /\ lastEvent' = "session"
    /\ \E out \in StdoutSamples, err \in StderrSamples :
       /\ engine' = [engine EXCEPT !.outLog = @ \o out, !.errLog = @ \o err]
       /\ IF LoadFailed(engine.outLog \o out, engine.errLog \o err)
          THEN /\ stack' = ReplaceTop(
                      [Top EXCEPT !.pc = "LoadFailedBox",
                                  !.cmds = @ \o <<"loadCircuit">>,
                                  !.report = Report("load", engine.outLog \o out,
                                                    engine.errLog \o err,
                                                    Top.circuit.text)])
               /\ UNCHANGED <<viewVars, hashVars, crashed, lastSession>>
          ELSE \E h \in Sch2BbChoices(Top.circuit.itemBases) :
               /\ m_connector2netHash' = Connector2Net(Top.circuit.netList)
               /\ m_sch2bbItemHash' = h
               /\ \E dies \in NullCallDies(h, Top.circuit.itemBases) :
                  IF dies
                  THEN \* greyOutNonSimParts calls through the null counterpart
                       /\ SetView(removeSimItems(View))
                       /\ Crash(Session("NullCounterpart", Top,
                                        Top.cmds \o <<"loadCircuit", "listing", "bg_run">>,
                                        {}, TRUE))
                  ELSE /\ stack' = ReplaceTop(
                              [Top EXCEPT !.pc = "Waiting",
                                          !.cmds = @ \o <<"loadCircuit", "listing", "bg_run">>,
                                          !.cleared = (overlays # {})])
                       /\ SetView([removeSimItems(View) EXCEPT
                              !.greyed = greyOutNonSimParts(Top.circuit.itemBases, h)])
                       /\ UNCHANGED <<crashed, lastSession>>
    /\ UNCHANGED <<ctlVars, m_simTimer, lastSignal, burstVars, vq, rv>>

(***************************************************************************)
(* simulate(): the wait loop, the timeout and the fatal error check.       *)
(***************************************************************************)
simTimeOut == 3000

\* the poll at which isBGThreadRunning() first answers false
WaitSamples == {0, simTimeOut - 1, simTimeOut, simTimeOut + 1}

\* elapsedTime when the loop ends: the loop runs while the thread is
\* running and elapsedTime < simTimeOut
WaitLoop(doneAt) == IF doneAt < simTimeOut THEN doneAt ELSE simTimeOut

\* the check after the wait loop
TimedOut(elapsedTime) == elapsedTime >= simTimeOut

\* a variant that looks at the error flag only
FatalErrorFlagOnly(errorOccured, errLog) == errorOccured

\* the check for a fatal error of the run
FatalError(errorOccured, errLog) ==
    errorOccured \/ Contains(ToLower(errLog), NoCircuitMarker)

WaitForEngine ==
    /\ At("Waiting")
    /\ lastEvent' = "session"
    /\ \E doneAt \in WaitSamples :
       IF TimedOut(WaitLoop(doneAt))
       THEN /\ Throw(Session("Timeout", Top, Top.cmds \o <<"bg_halt">>, {},
                             doneAt > WaitLoop(doneAt)))
            /\ UNCHANGED <<engine, viewVars>>
       ELSE \E vec \in Solutions, err \in BOOLEAN, extra \in RunStderrSamples :
            /\ engine' = [engine EXCEPT !.vec = vec, !.error = err,
                                        !.errLog = @ \o extra]
            /\ IF FatalError(err, engine.errLog \o extra)
               THEN /\ SetView(removeSimItems(View))
                    /\ stack' = ReplaceTop(
                           [Top EXCEPT !.pc = "FatalBox",
                                       !.report = Report("fatal", engine.outLog,
                                                         engine.errLog \o extra,
                                                         Top.circuit.text)])
               ELSE /\ stack' = ReplaceTop(
                           [Top EXCEPT !.pc = "Diagnosing",
                                       !.todo = Top.circuit.itemBases])
                    /\ UNCHANGED viewVars
            /\ UNCHANGED <<crashed, lastSession>>
    /\ UNCHANGED <<ctlVars, m_simTimer, hashVars, lastSignal, burstVars, vq, rv>>

(***************************************************************************)
(* simulate(): the loop over the parts.  QSet iterates in no fixed order.  *)
(***************************************************************************)
\* ItemBase::addSimulationGraphicsItem on the part and on its counterpart
addSimulationGraphicsItems(ovl, part, counterparts, kinds) ==
    ovl \cup {<<part, k>> : k \in kinds}
        \cup {<<b, k>> : b \in counterparts, k \in kinds}

DiagnosePart ==
    /\ At("Diagnosing")
    /\ lastEvent' = "session"
    /\ \E part \in Top.todo : \E dies \in NullCallDies(m_sch2bbItemHash, {part}) :
       \E verdict \in RuleVerdicts(m_connector2netHash, engine.vec, part) :
       LET bbParts == Counterparts(m_sch2bbItemHash, part)
       IN  /\ greyed' = greyed \ ({part} \cup bbParts)
           /\ rv' = IF dies \/ verdict.threw THEN NoRule
                    ELSE [part |-> part, rule |-> RuleFor(Scene[part].family),
                          verdict |-> verdict]
           /\ IF dies
              THEN /\ Crash(Session("NullCounterpart", Top, Top.cmds, Top.dispatched, FALSE))
                   /\ UNCHANGED <<overlays, brightness>>
              ELSE IF verdict.threw
              THEN /\ Throw(Session("QueryError", Top, Top.cmds,
                                    Top.dispatched \cup {part}, FALSE))
                   /\ UNCHANGED <<overlays, brightness>>
              ELSE /\ overlays' = addSimulationGraphicsItems(overlays, part, bbParts,
                                                             verdict.overlays)
                   /\ brightness' =
                         [l \in BbLeds |->
                            IF l \in bbParts /\ verdict.brightness # NoBrightness
                            THEN verdict.brightness ELSE brightness[l]]
                   /\ stack' = ReplaceTop(
                          [Top EXCEPT !.todo = @ \ {part},
                                      !.dispatched = @ \cup {part}])
                   /\ UNCHANGED <<crashed, lastSession>>
    /\ UNCHANGED <<ctlVars, m_simTimer, hashVars, engine, lastSignal, burstVars, vq>>

\* the loop is over: the net lists are deleted and simulate() returns
FinishSession ==
    /\ At("Diagnosing")
    /\ Top.todo = {}
    /\ lastEvent' = "session"
    /\ stack' = Pop
    /\ lastSession' = Session("Completed", Top, Top.cmds, Top.dispatched, FALSE)
    /\ rv' = NoRule
    /\ UNCHANGED <<ctlVars, m_simTimer, viewVars, hashVars, engine, lastSignal,
                   crashed, burstVars, vq>>

(***************************************************************************)
(* The message boxes return.                                               *)
(***************************************************************************)
\* after the init or load error box: stopSimulation(); return
DismissErrorBox ==
    /\ ~crashed /\ stack # <<>>
    /\ Top.pc \in {"InitFailedBox", "LoadFailedBox"}
    /\ lastEvent' = "session"
    /\ m_simulating' = FALSE
    /\ SetView(removeSimItems(View))
    /\ lastSignal' = Signal("simulationStartedOrStopped", FALSE)
    /\ stack' = Pop
    /\ lastSession' = Session(IF Top.pc = "InitFailedBox" THEN "InitFailed" ELSE "LoadFailed",
                              Top, Top.cmds, Top.dispatched, FALSE)
    /\ UNCHANGED <<m_enabled, m_simTimer, hashVars, engine, crashed, burstVars, vq, rv>>

\* after the fatal error box: return
DismissFatalBox ==
    /\ At("FatalBox")
    /\ lastEvent' = "session"
    /\ stack' = Pop
    /\ lastSession' = Session("Fatal", Top, Top.cmds, Top.dispatched, FALSE)
    /\ UNCHANGED <<ctlVars, m_simTimer, viewVars, hashVars, engine, lastSignal,
                   crashed, burstVars, vq, rv>>

Next ==
    \/ Tick
    \/ triggerSimulation
    \/ \E b \in BOOLEAN : enable(b)
    \/ startSimulation
    \/ stopSimulation
    \/ TimerExpire
    \/ LoadCircuit
    \/ WaitForEngine
    \/ DiagnosePart
    \/ FinishSession
    \/ DismissErrorBox
    \/ DismissFatalBox

Spec == Init /\ [][Next]_vars

TypeOK ==
    /\ m_enabled \in BOOLEAN
    /\ m_simulating \in BOOLEAN
    /\ m_simTimer \in TimerOff..SimDelay
    /\ Len(stack) <= 2
    /\ greyed \subseteq Items
    /\ \A o \in overlays : o[1] \in ItemBases

(***************************************************************************)
(* A second specification for the voltage query: any connector hash over   *)
(* MaxPins connectors and nets 0..MaxNet, any set of net vectors in the    *)
(* engine, and calculateVoltage applied to any two connectors.             *)
(***************************************************************************)
HarnessPins == 1..MaxPins

\* the engine holds v(n) = 1000 * (n + 1) for the nets n of present
HarnessVectors(present) ==
    [name \in {NetVectorName(n) : n \in present} |->
        <<1000 * ((CHOOSE n \in present : NetVectorName(n) = name) + 1)>>]

InitVoltage ==
    /\ InitCommon
    /\ m_sch2bbItemHash = EmptyFn
    /\ \E mapped \in SUBSET HarnessPins :
          m_connector2netHash \in [mapped -> 0..MaxNet]
    /\ \E present \in SUBSET (0..MaxNet) :
          engine = [outLog |-> <<>>, errLog |-> <<>>, error |-> FALSE,
                    vec |-> HarnessVectors(present)]

VoltageQuery ==
    /\ \E c0 \in HarnessPins, c1 \in HarnessPins :
          vq' = [c0 |-> c0, c1 |-> c1,
                 volts |-> calculateVoltage(m_connector2netHash, engine.vec, c0, c1),
                 queries |-> VoltageQueries(m_connector2netHash, engine.vec, c0, c1)]
    /\ UNCHANGED <<ctlVars, m_simTimer, stack, viewVars, hashVars, engine, lastSignal,
                   crashed, lastEvent, burstVars, lastSession, rv>>

NextVoltage == VoltageQuery

SpecVoltage == InitVoltage /\ [][NextVoltage]_vars

(***************************************************************************)
(* A third specification for the rules: simulate() has reached the loop    *)
(* over the parts with one of the circuits below loaded and with any of    *)
(* the solutions below in the engine; the loop then runs.                  *)
(***************************************************************************)
\* circuits of one part each, its first connector on net 1, its second on
\* net 2, and of two parts
RuleCircuits ==
    { Circuit("R1", << {"sVCC1.-"}, {"sR1.0"}, {"sR1.1"} >>, {"sR1"}),
      Circuit("R2", << {"sVCC1.-"}, {"sR2.0"}, {"sR2.1"} >>, {"sR2"}),
      Circuit("D1", << {"sVCC1.-"}, {"sD1.a"}, {"sD1.c"} >>, {"sD1"}),
      Circuit("VR1", << {"sVCC1.-"}, {"sVR1.0"}, {"sVR1.1"} >>, {"sVR1"}),
      Circuit("L1", << {"sVCC1.-"}, {"sL1.0"}, {"sL1.1"} >>, {"sL1"}),
      Circuit("LED1", << {"sVCC1.-"}, {"sLED1.a"}, {"sLED1.c"} >>, {"sLED1"}),
      Circuit("VCC1", << {"sVCC1.-"}, {"sVCC1.+"} >>, {"sVCC1"}),
      Circuit("C1", << {"sVCC1.-"}, {"sC1.+"}, {"sC1.-"} >>, {"sC1"}),
      Circuit("C2", << {"sVCC1.-"}, {"sC2.+"}, {"sC2.-"} >>, {"sC2"}),
      Circuit("C3", << {"sVCC1.-"}, {"sC3.0"}, {"sC3.1"} >>, {"sC3"}),
      Circuit("M1", << {"sVCC1.-"}, {"sM1.1"}, {"sM1.2"} >>, {"sM1"}),
      Circuit("VM1", << {"sVM1.a"}, {"sVM1.v"}, {"sVM1.com"} >>, {"sVM1"}),
      Circuit("VM2", << {"sVM2.a"}, {"sVM2.v"}, {"sVM2.com"} >>, {"sVM2"}),
      Circuit("VM3", << {"sVM3.a"}, {"sVM3.v"}, {"sVM3.com"} >>, {"sVM3"}),
      Circuit("VM4", << {"sVM4.a"}, {"sVM4.v"}, {"sVM4.com"} >>, {"sVM4"}),
      Circuit("VM5", << {"sVCC1.-"}, {"sVM5.v"}, {"sVM5.com"} >>, {"sVM5"}),
      Circuit("VM6", << {"sVM6.a"}, {"sVM6.v"} >>, {"sVM6"}),
      Circuit("VM7", << {"sVCC1.-"}, {"sVM7.v"} >>, {"sVM7"}),
      Circuit("LS1", << {"sVCC1.-"}, {"sLS1.vcc"}, {"sLS1.gnd"} >>, {"sLS1"}),
      Circuit("LS2", << {"sVCC1.-"}, {"sLS2.vcc"}, {"sLS2.gnd"} >>, {"sLS2"}),
      Circuit("DS1", << {"sVCC1.-"}, {"sDS1.vcc"}, {"sDS1.gnd"} >>, {"sDS1"}),
      Circuit("POT1", << {"sVCC1.-"}, {"sPOT1.0"}, {"sPOT1.1"}, {"sPOT1.2"} >>, {"sPOT1"}),
      Circuit("R1-LED1", << {"sVCC1.-", "sLED1.c"}, {"sR1.0"}, {"sR1.1", "sLED1.a"} >>,
              {"sR1", "sLED1"}) }

\* the power and current vectors of the parts above
RuleVectorNames ==
    { <<"@","r","1","[","p","]">>, <<"@","r","2","[","p","]">>,
      <<"@","d","1","[","p","]">>, <<"@","v","r","1","[","p","]">>,
      <<"@","d","l","e","d","1","[","i","d","]">>,
      <<"@","v","c","c","1","[","i","]">>,
      <<"@","v","m","2","[","i","]">>, <<"@","v","m","3","[","i","]">>,
      <<"@","q","l","s","1","[","i","c","]">>, <<"@","q","l","s","2","[","i","c","]">>,
      <<"@","r","l","s","1","[","i","]">>, <<"@","r","l","s","2","[","i","]">>,
      <<"@","v","d","s","1","a","[","i","]">>,
      <<"@","p","o","t","1","a","[","p","]">>, <<"@","p","o","t","1","b","[","p","]">> }

\* powers in mW and currents in mA, around the ratings of the parts
Measures ==
    {-1000, -901, -900, -1, 0, 10, 20, 21, 25, 249, 250, 251, 300, 500, 501,
     900, 901, 1000}

\* potentials of net 1 and of net 2 in mV, around the rated voltages
Volts1 == {0, 999, 1000, 6000, 6001, 8000, 8001, 16000, 16001}

Volts2 == {0, 500, 1000, 6001, 16001}

\* every power and current vector reads m, the nets 1 and 2 read n1 and n2
RuleVectors(m, n1, n2) ==
    [name \in RuleVectorNames \cup {NetVectorName(1), NetVectorName(2)} |->
        IF name = NetVectorName(1) THEN <<n1>>
        ELSE IF name = NetVectorName(2) THEN <<n2>>
        ELSE <<m>>]

\* a solution whose powers are finite and near the largest double
HugeVectors ==
    [name \in { <<"@","r","2","[","p","]">>,
                <<"@","p","o","t","1","a","[","p","]">>,
                <<"@","p","o","t","1","b","[","p","]">> } |-> <<DoubleMax - 1>>]

RuleSolutions ==
    {NoVectors, HugeVectors}
    \cup {RuleVectors(m, n1, n2) : m \in Measures, n1 \in Volts1, n2 \in Volts2}

InitRules ==
    /\ m_enabled = TRUE
    /\ m_simulating = TRUE
    /\ m_simTimer = TimerOff
    /\ \E c \in RuleCircuits : \E h \in Sch2BbChoices(c.itemBases) :
          /\ stack = << Frame("Diagnosing", "start", c,
                              <<"init", "clearLog", "remcirc", "reset", "clearLog",
                                "loadCircuit", "listing", "bg_run">>,
                              c.itemBases, {}, NoReport) >>
          /\ m_connector2netHash = Connector2Net(c.netList)
          /\ m_sch2bbItemHash = h
          /\ greyed = greyOutNonSimParts(c.itemBases, h)
    /\ overlays = {}
    /\ brightness = [l \in BbLeds |-> NoBrightness]
    /\ \E vec \in RuleSolutions :
          engine = [outLog |-> <<>>, errLog |-> <<>>, error |-> FALSE, vec |-> vec]
    /\ lastSignal = Signal("simulationStartedOrStopped", TRUE)
    /\ crashed = FALSE
    /\ lastEvent = "session"
    /\ sinceTrigger = SimDelay
    /\ burstLen = 0
    /\ burstStarts = 0
    /\ lastSession = NoSession
    /\ vq = NoQuery
    /\ rv = NoRule

NextRules ==
    \/ DiagnosePart
    \/ FinishSession

SpecRules == InitRules /\ [][NextRules]_vars

(***************************************************************************)
(* Properties.                                                             *)
(***************************************************************************)
\* the program point of the innermost activation of a stack
TopPc(s) == IF s = <<>> THEN "Idle" ELSE s[Len(s)].pc

\* a log holds a marker, in any letter case
HasMarker(log, marker) ==
    \E i \in 1..(Len(log) - Len(marker) + 1) :
        \A k \in 1..Len(marker) : CharToLower(log[i + k - 1]) = marker[k]

\* no effect, no overlay, no modified brightness on any item
CleanView ==
    /\ greyed = {}
    /\ overlays = {}
    /\ \A l \in BbLeds : brightness[l] = NoBrightness

\* the step in which the timer fires
TimerFires == m_simTimer = 0 /\ m_simTimer' = TimerOff

\* C1: a burst of triggers yields one session start, by the timer, and only
\* once the delay has elapsed since the last trigger of the burst: the
\* timer starts a session only SimDelay ticks after the last honoured
\* trigger, when it fires with the simulator enabled and simulating it
\* starts exactly one session, and it is inactive afterwards.
DebounceOneStart ==
    [][ /\ (burstStarts' > burstStarts) =>
              /\ sinceTrigger = SimDelay
              /\ burstStarts = 0
              /\ m_simTimer' = TimerOff
        /\ (TimerFires /\ m_enabled /\ m_simulating) =>
              /\ Len(stack') = Len(stack) + 1
              /\ burstStarts' = 1 ]_vars

\* C1 witness: a burst of MaxBurst triggers has started its one session
DebounceWitness ==
    /\ lastEvent = "timeout"
    /\ burstLen = MaxBurst
    /\ burstStarts = 1
    /\ stack # <<>>

\* C2: at most one session is active at any time: no activation of
\* simulate() starts a session while an earlier session is loading, waiting,
\* diagnosing or showing its load or fatal error box
OneSessionAtATime ==
    \A i \in 1..(Len(stack) - 1) :
        stack[i].pc \notin {"Loading", "Waiting", "Diagnosing", "LoadFailedBox", "FatalBox"}

\* C3: an activation of simulate() becomes a session only with the simulator
\* enabled and simulating; a timer that fires otherwise starts no session
\* and leaves engine, indices and views as they are.
GuardedStart ==
    [][ /\ (Len(stack') > Len(stack)) => (m_enabled' /\ m_simulating')
        /\ (TimerFires /\ ~(m_enabled /\ m_simulating)) =>
              UNCHANGED <<stack, engine, hashVars, viewVars>> ]_vars

\* C3 witness: the timer has fired after stopSimulation
GuardedStartWitness ==
    /\ lastEvent = "timeout"
    /\ m_enabled
    /\ ~m_simulating
    /\ stack = <<>>

\* C4: after stopSimulation no overlay or effect is left in either view and
\* the mode is stopped, with the timer pending or not; while the mode is
\* stopped no step, a trigger included, arms the timer (it only counts down
\* and fires), and only startSimulation ends the stopped mode.
StopClearsAndDisarms ==
    /\ [](lastEvent = "stop" => (CleanView /\ ~m_simulating))
    /\ [][ /\ ~m_simulating => m_simTimer' <= m_simTimer
           /\ (~m_simulating /\ m_simulating') => lastEvent' = "start" ]_vars

\* C4 witness: stopSimulation ran while the timer was pending
StopWitness ==
    /\ lastEvent = "stop"
    /\ m_simTimer > 0

\* C5: right after startSimulation the mode is started, the notification is
\* out, and a session is already under way iff the simulator is enabled.
StartStartsNow ==
    lastEvent = "start" =>
        /\ m_simulating
        /\ lastSignal = Signal("simulationStartedOrStopped", TRUE)
        /\ m_enabled => (Len(stack) = 1 /\ stack[1].origin = "start")
        /\ ~m_enabled => stack = <<>>

\* C5 witness: startSimulation has started a session
StartWitness ==
    /\ lastEvent = "start"
    /\ m_enabled
    /\ stack # <<>>
    /\ m_simTimer > 0

\* C6: a session that timed out has halted the engine, has run no rule and
\* leaves no overlay and no dimming effect behind
TimeoutLeavesNothing ==
    lastSession.outcome = "Timeout" =>
        /\ \E i \in 1..Len(lastSession.cmds) : lastSession.cmds[i] = "bg_halt"
        /\ lastSession.dispatched = {}
        /\ CleanView

\* the step in which simulate() passes the log check, one way or the other
LoadStep == At("Loading") /\ stack' # stack /\ stack' # <<>>

\* C7 as stated: an error or warning marker on either stream fails the load
LoadFailsOnAnyMarker ==
    [][ (LoadStep /\ \/ HasMarker(engine'.outLog, ErrorMarker)
                     \/ HasMarker(engine'.outLog, WarningMarker)
                     \/ HasMarker(engine'.errLog, ErrorMarker)
                     \/ HasMarker(engine'.errLog, WarningMarker))
        => TopPc(stack') = "LoadFailedBox" ]_vars

\* C7 amended: the load fails iff stdout holds "error" or stderr holds
\* "warning", in any letter case; then the box shows the log and the
\* netlist, no bg_run is issued, no index is rebuilt, no rule runs, and
\* when the box returns the session ends with the simulation stopped.
LoadFailsOnCodeMarkers ==
    [][ /\ LoadStep =>
              IF \/ HasMarker(engine'.outLog, ErrorMarker)
                 \/ HasMarker(engine'.errLog, WarningMarker)
              THEN /\ TopPc(stack') = "LoadFailedBox"
                   /\ stack'[Len(stack')].report =
                         Report("load", engine'.outLog, engine'.errLog, Top.circuit.text)
                   /\ \A i \in 1..Len(stack'[Len(stack')].cmds) :
                         stack'[Len(stack')].cmds[i] # "bg_run"
                   /\ stack'[Len(stack')].dispatched = {}
                   /\ UNCHANGED <<hashVars, viewVars>>
              ELSE TopPc(stack') = "Waiting"
        /\ (At("LoadFailedBox") /\ Len(stack') < Len(stack)) =>
              /\ ~m_simulating'
              /\ Top.dispatched = {}
              /\ \A i \in 1..Len(Top.cmds) : Top.cmds[i] # "bg_run" ]_vars

\* C7 witness: a load failed on a capitalised warning on stderr alone
LoadFailedWitness ==
    /\ At("LoadFailedBox")
    /\ Top.report.outLog = <<>>
    /\ HasMarker(Top.report.errLog, WarningMarker)

\* C8: when the run completes within the budget with the error flag set or
\* the no-circuit phrase on stderr, every overlay and effect is cleared, the
\* fatal error box is shown, no rule has run, and when the box returns the
\* session is over with no rule run and the mode unchanged.
FatalErrorClears ==
    [][ /\ (At("Waiting") /\ stack' # stack /\ stack' # <<>>) =>
              IF engine'.error \/ HasMarker(engine'.errLog, NoCircuitMarker)
              THEN /\ TopPc(stack') = "FatalBox"
                   /\ CleanView'
                   /\ stack'[Len(stack')].report.kind = "fatal"
                   /\ stack'[Len(stack')].report.errLog = engine'.errLog
                   /\ stack'[Len(stack')].dispatched = {}
              ELSE TopPc(stack') = "Diagnosing"
        /\ (At("FatalBox") /\ Len(stack') < Len(stack)) =>
              /\ stack' = Pop
              /\ Top.dispatched = {}
              /\ lastSession'.outcome = "Fatal"
              /\ UNCHANGED <<ctlVars, viewVars>> ]_vars

\* C8 witness: a fatal error found in the log alone, the error flag unset
FatalWitness ==
    /\ At("FatalBox")
    /\ ~engine.error
    /\ HasMarker(Top.report.errLog, NoCircuitMarker)

\* C9: a session that reached the loop over the parts has dispatched every
\* part of the simulated set, query error or not
QueryErrorSkipsInstance ==
    lastSession.outcome \in {"Completed", "QueryError"} =>
        lastSession.dispatched = lastSession.itemBases

\* the net vector name, written out
VName(n) == <<"v", "(", Digits[n + 1], ")">>

\* the potential of a connector on net n, from the engine's vectors
Expected(n) ==
    IF n = 0 \/ VName(n) \notin DOMAIN engine.vec THEN 0 ELSE engine.vec[VName(n)][1]

\* C10: a connector on net 0 contributes 0 and no vector query; with both
\* connectors on net 0 there is no query and the result is 0.
NetZeroNoQuery ==
    vq # NoQuery =>
        LET n0 == IF vq.c0 \in DOMAIN m_connector2netHash
                  THEN m_connector2netHash[vq.c0] ELSE 0
            n1 == IF vq.c1 \in DOMAIN m_connector2netHash
                  THEN m_connector2netHash[vq.c1] ELSE 0
        IN  /\ vq.volts = Expected(n0) - Expected(n1)
            /\ vq.queries = (IF n0 = 0 THEN <<>> ELSE <<VName(n0)>>)
                            \o (IF n1 = 0 THEN <<>> ELSE <<VName(n1)>>)
            /\ (n0 = 0 /\ n1 = 0) => (vq.queries = <<>> /\ vq.volts = 0)

\* C10 witness: a query with one connector on net 0, the other not, while
\* the engine does hold a vector v(0)
NetZeroWitness ==
    /\ vq # NoQuery
    /\ vq.c0 \in DOMAIN m_connector2netHash
    /\ m_connector2netHash[vq.c0] = 0
    /\ vq.c1 \in DOMAIN m_connector2netHash
    /\ m_connector2netHash[vq.c1] # 0
    /\ VName(0) \in DOMAIN engine.vec
    /\ vq.volts # 0

\* the net list a connector hash of the harness is built from
NetListOf(hash) ==
    [i \in 1..(MaxNet + 1) |-> {c \in DOMAIN hash : hash[c] = i - 1}]

\* C11: two connectors of one net of the net list are 0 V apart, whatever
\* the engine holds for that net, a vector or none
SameNetZeroVolts ==
    vq # NoQuery =>
        LET netList == NetListOf(m_connector2netHash)
        IN  /\ Connector2Net(netList) = m_connector2netHash
            /\ (\E i \in 1..Len(netList) : {vq.c0, vq.c1} \subseteq netList[i])
                  => vq.volts = 0

\* C11 witness: two different connectors of one net other than net 0, whose
\* vector the engine holds, have been compared
SameNetWitness ==
    /\ vq # NoQuery
    /\ vq.c0 # vq.c1
    /\ {vq.c0, vq.c1} \subseteq DOMAIN m_connector2netHash
    /\ m_connector2netHash[vq.c0] = m_connector2netHash[vq.c1]
    /\ m_connector2netHash[vq.c0] # 0
    /\ VName(m_connector2netHash[vq.c0]) \in DOMAIN engine.vec
    /\ vq.volts = 0

\* the families the loop asks for, in its order, and the rule of each
Priority ==
    << [rule |-> "updateCapacitor", names |-> { <<"c","a","p","a","c","i","t","o","r">> }],
       [rule |-> "updateDiode", names |-> { <<"d","i","o","d","e">> }],
       [rule |-> "updateLED", names |-> { <<"l","e","d">> }],
       [rule |-> "updateResistor", names |-> { <<"r","e","s","i","s","t","o","r">> }],
       [rule |-> "updateMultimeter",
        names |-> { <<"m","u","l","t","i","m","e","t","e","r">> }],
       [rule |-> "updateDcMotor", names |-> { <<"d","c"," ","m","o","t","o","r">> }],
       [rule |-> "updateIRSensor",
        names |-> { <<"l","i","n","e"," ","s","e","n","s","o","r">>,
                    <<"d","i","s","t","a","n","c","e"," ","s","e","n","s","o","r">> }],
       [rule |-> "updateBattery",
        names |-> { <<"b","a","t","t","e","r","y">>,
                    <<"v","o","l","t","a","g","e"," ","s","o","u","r","c","e">> }],
       [rule |-> "updatePotentiometer",
        names |-> { <<"p","o","t","e","n","t","i","o","m","e","t","e","r">>,
                    <<"s","p","a","r","k","f","u","n"," ","t","r","i","m","p","o","t">> }] >>

\* the entries of the priority order a family name matches, in any letter case
Matching(family) ==
    {i \in 1..Len(Priority) : \E n \in Priority[i].names : HasMarker(family, n)}

\* the rule of the earliest entry matched, "none" without a match
EarliestRule(family) ==
    IF Matching(family) = {} THEN "none"
    ELSE Priority[CHOOSE i \in Matching(family) : \A j \in Matching(family) : i <= j].rule

\* the overlay kinds an item carries
OverlaysOf(item) == {o[2] : o \in {x \in overlays : x[1] = item}}

\* C12: the part the loop has just diagnosed went to one rule, that of the
\* earliest entry of the priority order its family matches; what it carries
\* is what that rule asked for, and nothing when no entry matches
DispatchByPriority ==
    rv.part # "" =>
        /\ rv.rule = EarliestRule(Scene[rv.part].family)
        /\ OverlaysOf(rv.part) = rv.verdict.overlays
        /\ rv.rule = "none" =>
              /\ rv.verdict = NoVerdict
              /\ OverlaysOf(rv.part) = {}

\* C12 witness: a part whose family matches "led" and "resistor" went to the
\* LED rule alone: its power is beyond its rating and it carries no smoke
DispatchWitness ==
    /\ rv.part = "sVR1"
    /\ Cardinality(Matching(Scene["sVR1"].family)) = 2
    /\ rv.rule = "updateLED"
    /\ <<"@","v","r","1","[","p","]">> \in DOMAIN engine.vec
    /\ engine.vec[<<"@","v","r","1","[","p","]">>][1] > Scene["sVR1"].props["power"]
    /\ OverlaysOf("sVR1") = {}

\* the first sample of an engine vector, 0 when the engine has none
Measured(name) ==
    IF name \in DOMAIN engine.vec THEN engine.vec[name][1] ELSE 0

\* the engine's power vector of the rated resistor and of the diode
PowerVector(part) ==
    IF part = "sR1" THEN <<"@","r","1","[","p","]">> ELSE <<"@","d","1","[","p","]">>

\* C13: a rated resistor or diode the loop has just diagnosed carries
\* smoke, in both views, iff its measured power is strictly greater than
\* its rated power
SmokeAboveRatedPower ==
    rv.part \in {"sR1", "sD1"} =>
        /\ rv.rule = (IF rv.part = "sR1" THEN "updateResistor" ELSE "updateDiode")
        /\ ("smoke" \in OverlaysOf(rv.part))
              <=> (Measured(PowerVector(rv.part)) > Scene[rv.part].props["power"])
        /\ OverlaysOf(m_sch2bbItemHash[rv.part]) = OverlaysOf(rv.part)
        /\ OverlaysOf(rv.part) \subseteq {"smoke"}

\* C13 witness: a resistor dissipating exactly its rated power is not flagged
RatedPowerWitness ==
    /\ rv.part = "sR1"
    /\ Measured(PowerVector("sR1")) = Scene["sR1"].props["power"]
    /\ OverlaysOf("sR1") = {}

\* C14: the LED the loop has just diagnosed: with the measured current above
\* the rated current it carries smoke and its breadboard item is left at
\* brightness 0; otherwise it carries no smoke and the brightness is the
\* measured current over the rated current (per mille)
LedSmokeOrBrightness ==
    rv.part = "sLED1" =>
        LET curr == Measured(<<"@","d","l","e","d","1","[","i","d","]">>)
            maxCurr == Scene["sLED1"].props["current"]
            bbLed == m_sch2bbItemHash["sLED1"]
        IN  /\ rv.rule = "updateLED"
            /\ IF curr > maxCurr
               THEN /\ OverlaysOf("sLED1") = {"smoke"}
                    /\ OverlaysOf(bbLed) = {"smoke"}
                    /\ brightness[bbLed] = 0
               ELSE /\ OverlaysOf("sLED1") = {}
                    /\ OverlaysOf(bbLed) = {}
                    /\ brightness[bbLed] * maxCurr <= curr * 1000
                    /\ curr * 1000 < (brightness[bbLed] + 1) * maxCurr

\* C14 witness: half the rated current gives half the brightness, no smoke
LedHalfWitness ==
    /\ rv.part = "sLED1"
    /\ 2 * Measured(<<"@","d","l","e","d","1","[","i","d","]">>)
          = Scene["sLED1"].props["current"]
    /\ brightness[m_sch2bbItemHash["sLED1"]] = 500
    /\ OverlaysOf("sLED1") = {}

\* C15: the battery the loop has just diagnosed tolerates a tenth of its
\* rated voltage over its internal resistance (0.9 A for 9 V and 1 ohm); it
\* carries smoke iff the measured current, taken without its sign, is
\* strictly greater
BatteryShortCircuit ==
    rv.part = "sVCC1" =>
        LET curr == Measured(<<"@","v","c","c","1","[","i","]">>)
            bound == (Scene["sVCC1"].props["voltage"] * 1000)
                        \div (Scene["sVCC1"].props["internal resistance"] * 10)
        IN  /\ rv.rule = "updateBattery"
            /\ bound = 900
            /\ ("smoke" \in OverlaysOf("sVCC1")) <=> (curr > bound \/ -curr > bound)
            /\ OverlaysOf(m_sch2bbItemHash["sVCC1"]) = OverlaysOf("sVCC1")

\* C15 witness: a current of -1 A, the battery being charged, is flagged
BatteryNegativeWitness ==
    /\ rv.part = "sVCC1"
    /\ Measured(<<"@","v","c","c","1","[","i","]">>) = -1000
    /\ OverlaysOf("sVCC1") = {"smoke"}

\* the voltage from the first to the second connector of a part of the
\* rule circuits, which are on the nets 1 and 2
VoltageAcross == Measured(VName(1)) - Measured(VName(2))

\* C16: the capacitor the loop has just diagnosed, with both its legs: the
\* bidirectional one carries smoke iff the voltage from "+" to "-", without
\* its sign, is above the rated voltage; the polarized one iff that voltage
\* is above half the rated voltage or is negative
CapacitorSmoke ==
    rv.part \in {"sC1", "sC2"} =>
        LET v == VoltageAcross
            maxV == Scene[rv.part].props["voltage"]
        IN  /\ rv.rule = "updateCapacitor"
            /\ NamedPins(rv.part, <<"+">>) # {} /\ NamedPins(rv.part, <<"-">>) # {}
            /\ ("smoke" \in OverlaysOf(rv.part))
                  <=> IF rv.part = "sC2"
                      THEN v > maxV \/ -v > maxV
                      ELSE 2 * v > maxV \/ v < 0
            /\ OverlaysOf(m_sch2bbItemHash[rv.part]) = OverlaysOf(rv.part)

\* C16 witness: a polarized capacitor rated 16 V under -0.5 V is flagged
CapacitorReverseWitness ==
    /\ rv.part = "sC1"
    /\ VoltageAcross = -500
    /\ Scene["sC1"].props["voltage"] = 16000
    /\ OverlaysOf("sC1") = {"smoke"}

\* the multimeters of the scene
Multimeters == {"sVM1", "sVM2", "sVM3", "sVM4", "sVM5"}

\* every connector of a part is connected to wires
AllWired(part) ==
    \A i \in 1..Len(Scene[part].connectors) : Scene[part].connectors[i].wired

\* C17: a multimeter with its COM, V and A probes all wired, just diagnosed,
\* has asked its screen for one text, "ERR", and for no number, whatever its
\* variant; the screen shows it right-aligned on its five positions
ThreeProbesErr ==
    (rv.part \in Multimeters /\ AllWired(rv.part)) =>
        /\ rv.rule = "updateMultimeter"
        /\ Len(Scene[rv.part].connectors) = 3
        /\ Len(rv.verdict.display) = 1
        /\ ~rv.verdict.display[1].numeric
        /\ rv.verdict.display[1].msg = <<"E","R","R">>
        /\ rv.verdict.display[1].drawn = <<" "," ","E","R","R">>
        /\ OverlaysOf(rv.part) = {"text"}
        /\ OverlaysOf(m_sch2bbItemHash[rv.part]) = {"text"}

\* C17 witness: a multimeter that is neither voltmeter, ammeter nor
\* ohmmeter, with three wired probes, shows "ERR"
ThreeProbesWitness ==
    /\ rv.part = "sVM4"
    /\ AllWired("sVM4")
    /\ ToLower(Scene["sVM4"].variant)
          \notin {ToLower(VoltmeterVariant), ToLower(AmmeterVariant), ToLower(OhmmeterVariant)}
    /\ Len(rv.verdict.display) = 1
    /\ rv.verdict.display[1].msg = <<"E","R","R">>

\* C18: the DC motor the loop has just diagnosed, with both its terminals:
\* it carries smoke iff the voltage without its sign is above the rated
\* maximum; otherwise it carries a rotation iff that voltage is at least
\* the rated minimum, clockwise for a positive voltage and counter-clockwise
\* otherwise; it never carries smoke and a rotation together
MotorSmokeOrRotation ==
    rv.part = "sM1" =>
        LET v == VoltageAcross
            absV == IF v < 0 THEN -v ELSE v
            maxV == Scene["sM1"].props["voltage (max)"]
            minV == Scene["sM1"].props["voltage (min)"]
        IN  /\ rv.rule = "updateDcMotor"
            /\ NamedPins("sM1", <<"p","i","n"," ","1">>) # {}
            /\ NamedPins("sM1", <<"p","i","n"," ","2">>) # {}
            /\ OverlaysOf("sM1") =
                  IF absV > maxV THEN {"smoke"}
                  ELSE IF absV < minV THEN {}
                  ELSE IF v > 0 THEN {"rotateCW"} ELSE {"rotateCCW"}
            /\ OverlaysOf(m_sch2bbItemHash["sM1"]) = OverlaysOf("sM1")
            /\ Cardinality(OverlaysOf("sM1")) <= 1

\* C18 witness: at exactly the minimum voltage, reversed, the motor turns
\* counter-clockwise
MotorReverseWitness ==
    /\ rv.part = "sM1"
    /\ VoltageAcross = -(Scene["sM1"].props["voltage (min)"])
    /\ OverlaysOf("sM1") = {"rotateCCW"}

\* the parts of a simulated set without a breadboard item of the same title
Unmatched(itemBases) == {p \in itemBases : TitleMatches(p) = {}}

\* C19: a simulated part without a counterpart of the same title is left
\* out of the diagnostics: no session dies on the missing counterpart, no
\* rule runs for such a part, and a session that reached the loop ends
\* having diagnosed exactly the other parts
UnmatchedExcluded ==
    /\ lastSession.outcome # "NullCounterpart"
    /\ rv.part # "" => TitleMatches(rv.part) # {}
    /\ lastSession.outcome = "Completed" =>
          lastSession.dispatched = lastSession.itemBases \ Unmatched(lastSession.itemBases)

\* C20: while a session waits for the engine or runs its rules, the
\* connector hash holds exactly the connectors of the session's own net list,
\* each under the index of a net that holds it, and the part hash holds only
\* parts of the session's own simulated set, each with a breadboard item of
\* its title; so a rule reads no entry of an earlier session
IndicesRebuilt ==
    (At("Waiting") \/ At("Diagnosing")) =>
        LET netList == Top.circuit.netList
        IN  /\ DOMAIN m_connector2netHash = UNION {netList[i] : i \in 1..Len(netList)}
            /\ \A c \in DOMAIN m_connector2netHash :
                  /\ m_connector2netHash[c] \in 0..(Len(netList) - 1)
                  /\ c \in netList[m_connector2netHash[c] + 1]
            /\ DOMAIN m_sch2bbItemHash \subseteq Top.circuit.itemBases
            /\ \A p \in DOMAIN m_sch2bbItemHash :
                  /\ m_sch2bbItemHash[p] \in BbItems
                  /\ Scene[m_sch2bbItemHash[p]].title = Scene[p].title

\* C20 witness: a session on the resistor and battery circuit waits for the
\* engine with its own indices, while the session before it, on the circuit
\* with the LED, still shows its fatal error box
IndicesRebuiltWitness ==
    /\ Len(stack) = 2
    /\ stack[1].pc = "FatalBox"
    /\ stack[1].circuit.text = "R-LED-V"
    /\ At("Waiting")
    /\ Top.circuit.text = "R-V"
    /\ "sLED1.a" \notin DOMAIN m_connector2netHash
    /\ DOMAIN m_sch2bbItemHash = {"sR1", "sVCC1"}

\* the classes of connective and structural elements: pin marker, wire,
\* label, note, LED light, symbol, board, perfboard, breadboard, ruler
Structural ==
    {"connector", "wire", "partlabel", "note", "ledlight", "symbol",
     "board", "perfboard", "breadboard", "ruler"}

\* the items a session on a simulated set has to dim: those that are neither
\* simulated, nor the other-view counterpart of a simulated part, nor
\* structural
ToDim(simParts) ==
    {i \in Items :
        /\ i \notin simParts
        /\ ~(\E p \in simParts : p \in DOMAIN m_sch2bbItemHash /\ m_sch2bbItemHash[p] = i)
        /\ Scene[i].cls \notin Structural}

\* C21: from the dimming step of a session on, through its rules and when
\* it has completed cleanly, an item carries the grey effect iff it is
\* neither simulated, nor the counterpart of a simulated part, nor a
\* structural element; no simulated part and no counterpart is dimmed
DimmedExactly ==
    /\ (At("Waiting") \/ At("Diagnosing")) =>
          /\ greyed = ToDim(Top.circuit.itemBases)
          /\ \A p \in Top.circuit.itemBases :
                p \notin greyed /\ \A b \in Counterparts(m_sch2bbItemHash, p) : b \notin greyed
    /\ lastSession.outcome = "Completed" =>
          /\ greyed = ToDim(lastSession.itemBases)
          /\ \A p \in lastSession.itemBases :
                p \notin greyed /\ \A b \in Counterparts(m_sch2bbItemHash, p) : b \notin greyed

\* C21 witness: a session on the resistor and the battery has completed:
\* the LED and the microcontroller are dimmed in both views, the resistor,
\* its breadboard item, the wires and the breadboard are not
DimmedWitness ==
    /\ lastSession.outcome = "Completed"
    /\ lastSession.itemBases = {"sR1", "sVCC1"}
    /\ {"sLED1", "bLED1", "sU1", "bU1"} \subseteq greyed
    /\ greyed \cap {"sR1", "bR1", "sVCC1", "bVCC1", "sW1", "bW1", "bBB1", "bR1c0"} = {}

\* C22: a capacitor without a leg named "+" or "-", just diagnosed, has got
\* no verdict: its rule asked for no overlay and it carries none
MissingPinNoVerdict ==
    (rv.part = "sC3" /\ NamedPins("sC3", <<"+">>) = {} /\ NamedPins("sC3", <<"-">>) = {}) =>
        /\ rv.rule = "updateCapacitor"
        /\ rv.verdict = NoVerdict
        /\ OverlaysOf("sC3") = {}
        /\ OverlaysOf(m_sch2bbItemHash["sC3"]) = {}

\* the multimeters in voltmeter mode, with one, two or three probes wired
Voltmeters == {"sVM1", "sVM5", "sVM6", "sVM7"}

\* the connector of a part with a shared name, in any letter case
Probe(part, name) ==
    Scene[part].connectors[
        CHOOSE i \in 1..Len(Scene[part].connectors) :
            ToLower(Scene[part].connectors[i].name) = name]

\* the net a connector of the loaded circuit is on, 0 when it is on none
NetOfPin(c) == IF c \in DOMAIN m_connector2netHash THEN m_connector2netHash[c] ELSE 0

\* C23: a voltmeter (DC) with its three probes, just diagnosed: with the A
\* probe wired it has asked for the text "ERR"; otherwise, with COM and V
\* wired, for the voltage from the V probe to the COM probe; otherwise for
\* nothing; it has asked for at most one display
VoltmeterDisplay ==
    rv.part \in Voltmeters =>
        LET com == Probe(rv.part, <<"c","o","m"," ","p","r","o","b","e">>)
            v == Probe(rv.part, <<"v"," ","p","r","o","b","e">>)
            a == Probe(rv.part, <<"a"," ","p","r","o","b","e">>)
            d == rv.verdict.display
        IN  /\ rv.rule = "updateMultimeter"
            /\ ToLower(Scene[rv.part].variant) =
                  <<"v","o","l","t","m","e","t","e","r"," ","(","d","c",")">>
            /\ Len(d) <= 1
            /\ IF a.wired
               THEN /\ Len(d) = 1
                    /\ ~d[1].numeric
                    /\ d[1].msg = <<"E","R","R">>
                    /\ OverlaysOf(rv.part) = {"text"}
               ELSE IF com.wired /\ v.wired
               THEN /\ Len(d) = 1
                    /\ d[1].numeric
                    /\ d[1].reading.class = "finite"
                    /\ d[1].reading.value =
                          Expected(NetOfPin(v.id)) - Expected(NetOfPin(com.id))
                    /\ OverlaysOf(rv.part) = {"text"}
               ELSE /\ d = <<>>
                    /\ OverlaysOf(rv.part) = {}
            /\ OverlaysOf(m_sch2bbItemHash[rv.part]) = OverlaysOf(rv.part)

\* C23 witness: a voltmeter with COM and V wired, A not, reads 5 V between
\* the nets at 6 V and 1 V
VoltmeterReadingWitness ==
    /\ rv.part = "sVM5"
    /\ Expected(NetOfPin("sVM5.v")) = 6000
    /\ Expected(NetOfPin("sVM5.com")) = 1000
    /\ Len(rv.verdict.display) = 1
    /\ rv.verdict.display[1].numeric
    /\ rv.verdict.display[1].reading.value = 5000

\* the sensors of the scene
Sensors == {"sLS1", "sLS2", "sDS1"}

\* the engine vector that holds the output current of a sensor: the
\* collector current of the transistor q<title> for a family that holds
\* "line sensor" in any letter case, the current of subpart "a" otherwise
OutputVector(part) ==
    IF HasMarker(Scene[part].family, <<"l","i","n","e"," ","s","e","n","s","o","r">>)
    THEN <<"@","q">> \o ToLower(Scene[part].title) \o <<"[","i","c","]">>
    ELSE <<"@","v">> \o ToLower(Scene[part].title) \o <<"a","[","i","]">>

\* C24: a sensor with its three pins, just diagnosed, carries smoke iff its
\* supply voltage is above the rated maximum or negative, or its output
\* current, without its sign, is above the rated maximum output current;
\* the output current of a line sensor is its transistor's collector current
SensorSmoke ==
    rv.part \in Sensors =>
        LET v == VoltageAcross
            i == Measured(OutputVector(rv.part))
            maxV == Scene[rv.part].props["voltage (max)"]
            maxIout == Scene[rv.part].props["max output current"]
        IN  /\ rv.rule = "updateIRSensor"
            /\ ("smoke" \in OverlaysOf(rv.part))
                  <=> (v > maxV \/ v < 0 \/ i > maxIout \/ -i > maxIout)

\* the overlays the rules of a session ask for, for the parts it has
\* diagnosed on the solution the engine holds: on each part and on its
\* counterpart
Requested(parts) ==
    UNION { {<<i, k>> : i \in {p} \cup Counterparts(m_sch2bbItemHash, p),
                        k \in RuleVerdict(engine.vec, p).overlays} : p \in parts }

\* the brightness those rules leave on a breadboard LED
RequestedBrightness(parts, led) ==
    IF \E p \in parts : /\ led \in Counterparts(m_sch2bbItemHash, p)
                        /\ RuleVerdict(engine.vec, p).brightness # NoBrightness
    THEN RuleVerdict(engine.vec,
             CHOOSE p \in parts : /\ led \in Counterparts(m_sch2bbItemHash, p)
                                  /\ RuleVerdict(engine.vec, p).brightness # NoBrightness).brightness
    ELSE NoBrightness

\* C25: a session that waits for the engine has removed every overlay and
\* reset every LED, so no rule of it adds to what an earlier session left;
\* while its rules run and when it has completed cleanly, the overlays and
\* the LED brightness present are exactly those its own rules asked for, for
\* the parts it has diagnosed
OverlaysOfOneSession ==
    /\ At("Waiting") =>
          /\ overlays = {}
          /\ \A l \in BbLeds : brightness[l] = NoBrightness
    /\ At("Diagnosing") =>
          /\ overlays = Requested(Top.dispatched)
          /\ \A l \in BbLeds : brightness[l] = RequestedBrightness(Top.dispatched, l)
    /\ lastSession.outcome = "Completed" =>
          /\ lastSession.dispatched = lastSession.itemBases
          /\ overlays = Requested(lastSession.itemBases)
          /\ \A l \in BbLeds : brightness[l] = RequestedBrightness(lastSession.itemBases, l)

\* C25 witness: a session that found overlays of an earlier session to
\* remove has run its rules for the resistor, the LED and the battery, all
\* within their ratings: no smoke is left, the LED is lit at half
OverlaysReplacedWitness ==
    /\ At("Diagnosing")
    /\ Top.cleared
    /\ Top.todo = {}
    /\ Top.dispatched = {"sR1", "sLED1", "sVCC1"}
    /\ engine.vec = NominalVectors
    /\ overlays = {}
    /\ brightness["bLED1"] = 500

\* the parts of the scene without a rated power
Unrated == {"sR2", "sPOT1"}

\* C26: a resistor or a potentiometer without a rated power, just
\* diagnosed, carries no smoke, whatever finite powers the engine holds
UnratedNeverSmokes ==
    (rv.part \in Unrated /\ "power" \notin DOMAIN Scene[rv.part].props) =>
        /\ \A n \in DOMAIN engine.vec : engine.vec[n][1] \in (-DoubleMax)..DoubleMax
        /\ OverlaysOf(rv.part) = {}

\* the steps simulate() takes by itself once it has been entered
SessionStep == LoadCircuit \/ WaitForEngine \/ DiagnosePart \/ FinishSession

\* time passes, simulate() runs on once entered, and an event loop that is
\* reached again and again delivers the timeout of an expired timer
Fairness ==
    /\ WF_vars(Tick)
    /\ WF_vars(SessionStep)
    /\ SF_vars(TimerExpire)

\* the environment of the liveness specification: the netlist builder
\* hands over the resistor and battery circuit, the engine holds no vector
\* or solves it with every part beyond its ratings
LiveCircuit == \A i \in 1..Len(stack) : stack[i].circuit.text \in {"", "R-V"}

LiveSolution == engine.vec \in {NoVectors, OverloadVectors}

NextLive ==
    \/ Tick
    \/ triggerSimulation
    \/ \E b \in BOOLEAN : enable(b)
    \/ startSimulation /\ LiveCircuit'
    \/ stopSimulation
    \/ TimerExpire /\ LiveCircuit'
    \/ LoadCircuit
    \/ WaitForEngine /\ LiveSolution'
    \/ DiagnosePart
    \/ FinishSession
    \/ DismissErrorBox
    \/ DismissFatalBox

SpecLive == Init /\ [][NextLive]_vars /\ Fairness

\* a trigger has just been honoured: the simulator is enabled and started
Triggered ==
    /\ lastEvent = "trigger"
    /\ m_enabled
    /\ m_simulating
    /\ ~crashed

\* C27: once a trigger has been honoured with the simulator enabled and
\* started, the timer expires and starts a session, unless the simulation is
\* stopped or disabled or the process ends before, or triggers keep coming
DebounceLiveness ==
    \/ []<><<triggerSimulation>>_vars
    \/ Triggered ~> (burstStarts >= 1 \/ ~m_simulating \/ ~m_enabled \/ crashed)

\* C27 witness: SimDelay after a single honoured trigger the timer has
\* expired and simulate() has started a session
DebounceLivenessWitness ==
    /\ lastEvent = "timeout"
    /\ burstLen = 1
    /\ burstStarts = 1
    /\ sinceTrigger = SimDelay
    /\ m_simTimer = TimerOff
    /\ stack # <<>>
    /\ Top.origin = "timer"
    /\ Top.pc = "Loading"

\* the commands of a session, in the order of simulate()
CommandOrder ==
    <<"init", "clearLog", "remcirc", "reset", "clearLog", "loadCircuit",
      "listing", "bg_run", "bg_halt">>

\* a sequence of commands is a beginning of the order of simulate()
InOrder(cmds) ==
    /\ Len(cmds) <= Len(CommandOrder)
    /\ cmds = SubSeq(CommandOrder, 1, Len(cmds))

\* the number of times a command is in a sequence of commands
Times(cmds, c) == Cardinality({i \in 1..Len(cmds) : cmds[i] = c})

\* C28: the engine gets the commands of a session in the order init,
\* clearLog, remcirc, reset, clearLog, loadCircuit, listing, bg_run, bg_halt;
\* bg_run is issued at most once, and exactly when the log check after
\* loadCircuit has passed; bg_halt only after the bg_run of that session;
\* when loadCircuit is called both logs are empty, so the check sees only
\* what loadCircuit wrote
EngineCommandOrder ==
    /\ [](/\ \A i \in 1..Len(stack) :
                /\ InOrder(stack[i].cmds)
                /\ Times(stack[i].cmds, "bg_run") <= 1
                /\ Times(stack[i].cmds, "bg_run") = 1
                      <=> stack[i].pc \in {"Waiting", "Diagnosing", "FatalBox"}
                /\ Times(stack[i].cmds, "loadCircuit") = 1
                      <=> stack[i].pc \notin {"InitFailedBox", "Loading"}
          /\ InOrder(lastSession.cmds)
          /\ Times(lastSession.cmds, "bg_run") <= 1
          /\ Times(lastSession.cmds, "bg_halt") = 1 <=> lastSession.outcome = "Timeout"
          /\ At("Loading") => (engine.outLog = <<>> /\ engine.errLog = <<>>))
    /\ [][ LoadStep =>
              (Times(stack'[Len(stack')].cmds, "bg_run") = 1
                 <=> ~(\/ HasMarker(engine'.outLog, ErrorMarker)
                       \/ HasMarker(engine'.errLog, WarningMarker))) ]_vars

\* C28 witness: a session has passed the log check and issued bg_run while
\* the session before it still shows the box of its failed load, whose log
\* the two clearLog calls have wiped
CommandOrderWitness ==
    /\ Len(stack) = 2
    /\ stack[1].pc = "LoadFailedBox"
    /\ HasMarker(stack[1].report.errLog, WarningMarker)
    /\ At("Waiting")
    /\ Top.cmds = SubSeq(CommandOrder, 1, 8)
    /\ engine.errLog = <<>>

\* C29: a session ends on a timeout, with the halt command, only if the
\* engine still reported the background run as running when the wait loop
\* ended; a wait loop that ends on the engine's report of completion is
\* followed by the check for a fatal error
TimeoutOnlyWhileRunning ==
    lastSession.outcome = "Timeout" =>
        /\ lastSession.stillRunning
        /\ lastSession.cmds[Len(lastSession.cmds)] = "bg_halt"

\* C30: whenever simulate() is not active and the simulator is disabled or
\* the simulation is stopped, no item carries the grey effect or an overlay
\* and no LED has a modified brightness
InactiveClean ==
    (stack = <<>> /\ (~m_enabled \/ ~m_simulating)) => CleanView

\* C30 witness: the simulator has been disabled, the simulation still
\* started, after a session on the resistor and the battery whose solution
\* had every part beyond its ratings and no fatal error: nothing is left
InactiveWitness ==
    /\ lastEvent = "enable"
    /\ ~m_enabled
    /\ m_simulating
    /\ stack = <<>>
    /\ ~crashed
    /\ DOMAIN m_sch2bbItemHash = {"sR1", "sVCC1"}
    /\ engine.vec = OverloadVectors
    /\ ~engine.error
    /\ ~HasMarker(engine.errLog, NoCircuitMarker)
    /\ CleanView

\* the connectors of the first net of the net list the hash was built from
FirstNet == {c \in DOMAIN m_connector2netHash : m_connector2netHash[c] = 0}

\* C31: a connector that is in no net of the net list is not taken for a
\* connector of net 0: in a voltage query, only the connectors of the first
\* net of the list are given the potential 0 without a query to the engine,
\* so every other connector of the query has its query
UnmappedNotGround ==
    vq # NoQuery =>
        Len(vq.queries) >= Cardinality({i \in {0, 1} :
                               (IF i = 0 THEN vq.c0 ELSE vq.c1) \notin FirstNet})

====
